---- MODULE Spec2Model ----
(***************************************************************************)
(* Model of gofastapi's request engine: compiled binding plans, field      *)
(* extractors, the dependency resolver with its per-request cache, the     *)
(* single-response executor (handler.go, dependency.go) and the SSE        *)
(* streaming loop (sse.go).                                                *)
(*                                                                         *)
(* Strings are sequences of one-character strings, so that parsing is      *)
(* computed and not assumed.  A Go interface{} value is a record           *)
(* [t |-> dynamic type, v |-> payload]; the nil interface is NilV.         *)
(***************************************************************************)
EXTENDS Integers, Sequences, FiniteSets, TLC

\* ------------------------------------------------------------------ bounds
\* number of requests in flight at the same time in SpecConc
NumReqs == 2
\* number of events the producer of a stream wants to yield
MaxEvents == 3
\* number of comma-separated parts of a list parameter
MaxParts == 3
\* number of nested activations (Execute and the Resolve calls above it) a
\* goroutine stack has room for
MaxDepth == 6

Reqs == 1..NumReqs

\* ------------------------------------------------------------- Go values
NilV == [t |-> "nil", v |-> 0]

IntTypes == {"int", "int64"}
\* the pointer types and the iterator type of the application
PtrTypes == {"*Org", "*DiamondRequest"}
IterTypes == {"iter.Seq[EventData[Response]]"}
\* reflect.Type.Kind()
Kind(t) ==
  CASE t = "string" -> "String"
    [] t \in IntTypes -> "Int"
    [] t = "bool" -> "Bool"
    [] t \in {"[]string", "[]int", "[]int64"} -> "Slice"
    [] t \in PtrTypes -> "Ptr"
    [] t \in {"context.Context", "error"} -> "Interface"
    [] t \in IterTypes -> "Func"
    [] OTHER -> "Struct"

\* reflect.Type.Elem() of a slice type
Elem(t) ==
  CASE t = "[]int" -> "int" [] t = "[]int64" -> "int64" [] OTHER -> "string"

\* struct tags of one field; the dep tag is kept as its dot-separated segments
NoTag == [path |-> "", query |-> "", header |-> "", json |-> "",
          dep |-> <<>>, validate |-> ""]

F(name, type, tag) == [name |-> name, type |-> type, tag |-> tag]

\* The struct types of the registered application: the request and response
\* types of the dependencies (auth <- perm <- audit, and orphan, which names a
\* dependency "ghost" nobody registered) and of the handlers.
\* A struct type is the sequence of its fields; field i of Go is element i+1.
TypeDefs(t) ==
  CASE t = "AuthRequest" ->
         <<F("Token", "string",
             [NoTag EXCEPT !.header = "Authorization", !.validate = "required"])>>
    [] t = "AuthUser" ->
         <<F("UserID", "string", NoTag), F("Username", "string", NoTag),
           F("Org", "*Org", NoTag)>>
    [] t = "Org" -> <<F("Name", "string", NoTag)>>
    [] t = "WhoRequest" ->
         <<F("UID", "string", [NoTag EXCEPT !.dep = <<"auth", "UserID">>]),
           F("Nope", "string", [NoTag EXCEPT !.dep = <<"auth", "Missing">>])>>
    [] t = "Who" -> <<F("ID", "string", NoTag), F("Nope", "string", NoTag)>>
    [] t = "NestedRequest" ->
         <<F("UID", "string", [NoTag EXCEPT !.dep = <<"auth", "UserID">>]),
           F("Missing", "string", [NoTag EXCEPT !.dep = <<"auth", "Missing">>]),
           F("Name", "string", [NoTag EXCEPT !.dep = <<"auth", "username">>]),
           F("Deep", "string", [NoTag EXCEPT !.dep = <<"auth", "UserID", "X">>]),
           F("OrgName", "string", [NoTag EXCEPT !.dep = <<"auth", "Org", "Name">>]),
           F("W", "Who", [NoTag EXCEPT !.dep = <<"whoami">>])>>
    [] t = "PermRequest" ->
         <<F("User", "AuthUser", [NoTag EXCEPT !.dep = <<"auth">>]),
           F("Level", "int",
             [NoTag EXCEPT !.query = "level", !.validate = "required"])>>
    [] t = "Perm" ->
         <<F("Owner", "string", NoTag), F("Level", "int", NoTag)>>
    [] t = "AuditRequest" ->
         <<F("P", "Perm", [NoTag EXCEPT !.dep = <<"perm">>]),
           F("Strict", "bool", [NoTag EXCEPT !.header = "X-Strict"])>>
    [] t = "Audit" ->
         <<F("Who", "string", NoTag), F("Strict", "bool", NoTag)>>
    [] t = "DiamondRequest" ->
         <<F("User", "AuthUser", [NoTag EXCEPT !.dep = <<"auth">>]),
           F("Perm", "Perm", [NoTag EXCEPT !.dep = <<"perm">>]),
           F("ID", "int", [NoTag EXCEPT !.path = "id"]),
           F("Details", "bool", [NoTag EXCEPT !.query = "details"])>>
    [] t = "ChainRequest" ->
         <<F("Audit", "Audit", [NoTag EXCEPT !.dep = <<"audit">>]),
           F("Data", "string",
             [NoTag EXCEPT !.json = "data", !.validate = "required"]),
           F("Owner", "string", [NoTag EXCEPT !.dep = <<"perm", "Owner">>]),
           F("Level", "int", [NoTag EXCEPT !.query = "level"])>>
    [] t = "MismatchRequest" ->
         <<F("Wrong", "Perm", [NoTag EXCEPT !.dep = <<"auth">>]),
           F("Strict", "bool", [NoTag EXCEPT !.header = "X-Strict"]),
           F("Missing", "string", [NoTag EXCEPT !.dep = <<"auth", "Missing">>])>>
    [] t = "OrphanRequest" ->
         <<F("G", "AuthUser", [NoTag EXCEPT !.dep = <<"ghost">>])>>
    [] t = "Orphan" -> <<F("X", "string", NoTag)>>
    [] t = "GhostRequest" ->
         <<F("User", "AuthUser", [NoTag EXCEPT !.dep = <<"auth">>]),
           F("G", "AuthUser", [NoTag EXCEPT !.dep = <<"ghost">>])>>
    [] t = "ViaOrphanRequest" ->
         <<F("User", "AuthUser", [NoTag EXCEPT !.dep = <<"auth">>]),
           F("O", "Orphan", [NoTag EXCEPT !.dep = <<"orphan">>])>>
    [] t = "TaggedRequest" ->
         <<F("ID", "int", [NoTag EXCEPT !.path = "id", !.json = "id"]),
           F("Details", "bool", [NoTag EXCEPT !.query = "details"])>>
    [] t = "SelfRequest" -> <<F("Me", "Self", [NoTag EXCEPT !.dep = <<"self">>])>>
    [] t = "Self" -> <<F("X", "string", NoTag)>>
    [] t = "PingRequest" ->
         <<F("ID", "int", [NoTag EXCEPT !.path = "id"]),
           F("P", "Pong", [NoTag EXCEPT !.dep = <<"pong">>])>>
    [] t = "Ping" -> <<F("X", "string", NoTag)>>
    [] t = "PongRequest" -> <<F("Q", "Ping", [NoTag EXCEPT !.dep = <<"ping">>])>>
    [] t = "Pong" -> <<F("X", "string", NoTag)>>
    [] t = "LoopRequest" ->
         <<F("S", "Self", [NoTag EXCEPT !.dep = <<"self">>]),
           F("Details", "bool", [NoTag EXCEPT !.header = "X-Strict"])>>
    [] t = "PingPongRequest" ->
         <<F("User", "AuthUser", [NoTag EXCEPT !.dep = <<"auth">>]),
           F("P", "Ping", [NoTag EXCEPT !.dep = <<"ping">>])>>
    [] t = "PayloadRequest" ->
         <<F("Data", "string", [NoTag EXCEPT !.json = "data"])>>
    [] t = "Payload" -> <<F("Data", "string", NoTag)>>
    [] t = "QuietRequest" ->
         <<F("P", "Payload", [NoTag EXCEPT !.dep = <<"payload">>]),
           F("ID", "int", [NoTag EXCEPT !.path = "id"])>>
    [] t = "EchoRequest" ->
         <<F("P", "Payload", [NoTag EXCEPT !.dep = <<"payload">>]),
           F("Data", "string", [NoTag EXCEPT !.json = "data"])>>
    [] t = "Response" -> <<F("Message", "string", NoTag)>>
    [] OTHER -> <<>>

\* reflect.Type.NumField / Field(i), with Go's indexes 0..n-1
NumField(t) == Len(TypeDefs(t))
Field(t, i) == TypeDefs(t)[i + 1]
FieldIdx(t) == 0..(NumField(t) - 1)

\* reflect.Zero(t).Interface(); a struct value is indexed by field index, a
\* pointer is <<>> when nil and <<the value it points to>> otherwise
RECURSIVE Zero(_)
Zero(t) ==
  CASE Kind(t) = "String" -> [t |-> t, v |-> <<>>]
    [] Kind(t) = "Int" -> [t |-> t, v |-> 0]
    [] Kind(t) = "Bool" -> [t |-> t, v |-> FALSE]
    [] Kind(t) = "Slice" -> [t |-> t, v |-> <<>>]
    [] Kind(t) = "Ptr" -> [t |-> t, v |-> <<>>]
    [] OTHER -> [t |-> t, v |-> [i \in FieldIdx(t) |-> Zero(Field(t, i).type)]]

Str(s) == [t |-> "string", v |-> s]

\* reflect.Type.ConvertibleTo between the types of the model: identical
\* types and the integer types among themselves
ConvertibleTo(from, to) ==
  \/ from = to
  \/ from \in IntTypes /\ to \in IntTypes

\* reflect.Value.Convert
Convert(val, to) == [t |-> to, v |-> val.v]

\* ------------------------------------------------------------------ errors
\* fmt.Errorf / strconv errors: an error without structure
PlainError(msg) == [kind |-> "error", msg |-> msg]

NewError(status, message) ==
  [kind |-> "Error", Status |-> status, Code |-> "", Message |-> message,
   Details |-> <<>>]

NewErrorWithCode(status, code, message) ==
  [kind |-> "Error", Status |-> status, Code |-> code, Message |-> message,
   Details |-> <<>>]

\* (*Error).WithDetails
WithDetails(e, details) == [e EXCEPT !.Details = details]

NewValidationError(fields) ==
  [kind |-> "ValidationError", Status |-> 400, Code |-> "VALIDATION_ERROR",
   Message |-> "Validation failed", Fields |-> fields]

NoErr == [kind |-> "nil"]

\* a panic of the reflect package, which leaves the function without a result
ReflectPanic(msg) == [kind |-> "panic", msg |-> msg]

\* ----------------------------------------------------------------- strings
Digits == {"0", "1", "2", "3", "4", "5", "6", "7", "8", "9"}

DigitVal(c) ==
  CASE c = "0" -> 0 [] c = "1" -> 1 [] c = "2" -> 2 [] c = "3" -> 3
    [] c = "4" -> 4 [] c = "5" -> 5 [] c = "6" -> 6 [] c = "7" -> 7
    [] c = "8" -> 8 [] c = "9" -> 9

RECURSIVE DigitsVal(_, _)
DigitsVal(s, acc) ==
  IF s = <<>> THEN acc ELSE DigitsVal(Tail(s), 10 * acc + DigitVal(Head(s)))

\* strconv.ParseInt(value, 10, bits): a result or a parse error
ParseInt(s) ==
  LET body == IF s # <<>> /\ Head(s) \in {"+", "-"} THEN Tail(s) ELSE s
      neg == s # <<>> /\ Head(s) = "-"
  IN IF body = <<>> \/ \E i \in 1..Len(body) : body[i] \notin Digits
       THEN [val |-> NilV, err |-> PlainError(<<"strconv.ParseInt", s>>)]
       ELSE [val |-> [t |-> "int64",
                      v |-> IF neg THEN 0 - DigitsVal(body, 0)
                                   ELSE DigitsVal(body, 0)],
             err |-> NoErr]

TrueStrings == {<<"1">>, <<"t">>, <<"T">>, <<"T", "R", "U", "E">>,
                <<"t", "r", "u", "e">>, <<"T", "r", "u", "e">>}
FalseStrings == {<<"0">>, <<"f">>, <<"F">>, <<"F", "A", "L", "S", "E">>,
                 <<"f", "a", "l", "s", "e">>, <<"F", "a", "l", "s", "e">>}

\* strconv.ParseBool(value)
ParseBool(s) ==
  IF s \in TrueStrings THEN [val |-> [t |-> "bool", v |-> TRUE], err |-> NoErr]
  ELSE IF s \in FalseStrings
    THEN [val |-> [t |-> "bool", v |-> FALSE], err |-> NoErr]
    ELSE [val |-> NilV, err |-> PlainError(<<"strconv.ParseBool", s>>)]

\* strings.Split(s, sep) for a one-character sep: always at least one part
\* (cur is the part being collected, <<>> at the call)
RECURSIVE Split(_, _, _)
Split(s, sep, cur) ==
  IF s = <<>> THEN <<cur>>
  ELSE IF Head(s) = sep THEN <<cur>> \o Split(Tail(s), sep, <<>>)
  ELSE Split(Tail(s), sep, Append(cur, Head(s)))

\* strings.TrimSpace
RECURSIVE TrimLeft(_)
TrimLeft(s) == IF s # <<>> /\ Head(s) = " " THEN TrimLeft(Tail(s)) ELSE s

RECURSIVE TrimRight(_)
TrimRight(s) ==
  IF s # <<>> /\ s[Len(s)] = " " THEN TrimRight(SubSeq(s, 1, Len(s) - 1)) ELSE s

TrimSpace(s) == TrimRight(TrimLeft(s))

\* convertValue for the element of a slice and for scalar fields
convertScalar(value, targetType) ==
  CASE Kind(targetType) = "String" -> [val |-> Str(value), err |-> NoErr]
    [] Kind(targetType) = "Int" -> ParseInt(value)
    [] Kind(targetType) = "Bool" -> ParseBool(value)
    [] OTHER -> [val |-> NilV, err |-> PlainError(<<"unsupported type", targetType>>)]

\* the slice case of convertValue up to part i: the first part that does not
\* convert ends it with that error; "slice.Index(i).Set(reflect.ValueOf(elem))"
\* panics when the dynamic type of elem is not the element type (ParseInt
\* returns an int64 for every integer type)
RECURSIVE convertParts(_, _, _, _)
convertParts(parts, i, targetType, acc) ==
  IF i > Len(parts)
    THEN [val |-> [t |-> targetType, v |-> acc], err |-> NoErr]
    ELSE LET elem == convertScalar(TrimSpace(parts[i]), Elem(targetType))
         IN IF elem.err # NoErr THEN [val |-> NilV, err |-> elem.err]
            ELSE IF elem.val.t # Elem(targetType)
              THEN [val |-> NilV,
                    err |-> ReflectPanic(<<"reflect.Set: not assignable", elem.val.t>>)]
            ELSE convertParts(parts, i + 1, targetType, Append(acc, elem.val.v))

\* convertValue: string -> typed value, or an error
convertValue(value, targetType) ==
  IF Kind(targetType) = "Slice"
    THEN convertParts(Split(value, ",", <<>>), 1, targetType, <<>>)
    ELSE convertScalar(value, targetType)

\* ------------------------------------------------- registration (compile)
\* compileStructExtractors: the extractor of every tagged field, by the
\* priority path > query > header > json > dep
ExtractorOf(f) ==
  IF f.tag.path # "" THEN [kind |-> "path", paramName |-> f.tag.path, fieldType |-> f.type]
  ELSE IF f.tag.query # "" THEN [kind |-> "query", paramName |-> f.tag.query, fieldType |-> f.type]
  ELSE IF f.tag.header # "" THEN [kind |-> "header", headerName |-> f.tag.header, fieldType |-> f.type]
  ELSE IF f.tag.json # "" /\ f.tag.json # "-"
    THEN [kind |-> "json", jsonPath |-> f.tag.json, fieldType |-> f.type]
  ELSE [kind |-> "dep", depName |-> f.tag.dep[1], fieldPath |-> f.tag.dep, fieldType |-> f.type]

HasSource(f) ==
  \/ f.tag.path # "" \/ f.tag.query # "" \/ f.tag.header # ""
  \/ (f.tag.json # "" /\ f.tag.json # "-") \/ f.tag.dep # <<>>

compileStructExtractors(structType) ==
  [extractors |-> [i \in {j \in FieldIdx(structType) : HasSource(Field(structType, j))}
                     |-> ExtractorOf(Field(structType, i))],
   validators |-> [i \in {j \in FieldIdx(structType) : Field(structType, j).tag.validate # ""}
                     |-> Field(structType, i).tag.validate]]

\* compileHandler for a handler func(context.Context, reqType) (respType, error)
compileHandler(reqType, respType) ==
  LET c == compileStructExtractors(reqType)
  IN [reqType |-> reqType, respType |-> respType,
      extractors |-> c.extractors, validators |-> c.validators,
      dependencies |-> [i \in {j \in FieldIdx(reqType) : Field(reqType, j).tag.dep # <<>>}
                          |-> Field(reqType, i).tag.dep[1]],
      hasJSONBody |-> \E i \in FieldIdx(reqType) :
                         Field(reqType, i).tag.json # "" /\ Field(reqType, i).tag.json # "-"]

\* the compiledDependency that DependencyResolver.Register stores
compileDependency(reqType, respType) ==
  LET c == compileStructExtractors(reqType)
  IN [reqType |-> reqType, respType |-> respType,
      extractors |-> c.extractors, validators |-> c.validators]

\* the registry after the application registered its dependencies
Registry ==
  [n \in {"auth", "perm", "audit", "orphan", "whoami"} |->
     CASE n = "auth" -> compileDependency("AuthRequest", "AuthUser")
       [] n = "perm" -> compileDependency("PermRequest", "Perm")
       [] n = "audit" -> compileDependency("AuditRequest", "Audit")
       [] n = "orphan" -> compileDependency("OrphanRequest", "Orphan")
       [] n = "whoami" -> compileDependency("WhoRequest", "Who")]

\* a registry in which a dependency names itself (self) and two name each
\* other (ping, pong)
CycleRegistry ==
  [n \in {"self", "ping", "pong"} |->
     CASE n = "self" -> compileDependency("SelfRequest", "Self")
       [] n = "ping" -> compileDependency("PingRequest", "Ping")
       [] n = "pong" -> compileDependency("PongRequest", "Pong")] @@ Registry

\* a registry with a dependency whose request type has a JSON-sourced field
\* (payload)
PayloadRegistry ==
  ("payload" :> compileDependency("PayloadRequest", "Payload")) @@ Registry

\* the handlers a route may have been registered with
Handlers ==
  {compileHandler(t, "Response") :
     t \in {"DiamondRequest", "ChainRequest", "MismatchRequest", "GhostRequest",
            "ViaOrphanRequest", "NestedRequest", "TaggedRequest"}}

\* ------------------------------------------------------------ a request
\* url.Values.Get / http.Header.Get: "" when the parameter is absent
Get(m, k) == IF k \in DOMAIN m THEN m[k] ELSE <<>>

\* json.Unmarshal of one JSON value into a field of type fieldType
jsonUnmarshal(jv, fieldType) ==
  IF jv.t # "invalid" /\ Kind(jv.t) = Kind(fieldType)
    THEN [val |-> [t |-> fieldType, v |-> jv.v], err |-> NoErr]
    ELSE [val |-> NilV, err |-> PlainError(<<"json: cannot unmarshal", fieldType>>)]

\* a path extractor that treats an absent variable like an absent query
\* parameter
PathExtractZero(e, req) ==
  IF e.paramName \notin DOMAIN req.vars
    THEN [val |-> Zero(e.fieldType), err |-> NoErr]
    ELSE convertValue(req.vars[e.paramName], e.fieldType)

\* PathExtractor.Extract
PathExtract(e, req) ==
  IF e.paramName \notin DOMAIN req.vars
    THEN [val |-> NilV, err |-> PlainError(<<"path parameter not found", e.paramName>>)]
    ELSE convertValue(req.vars[e.paramName], e.fieldType)

\* QueryExtractor.Extract
QueryExtract(e, req) ==
  LET value == Get(req.query, e.paramName)
  IN IF value = <<>> /\ Kind(e.fieldType) # "Bool"
       THEN [val |-> Zero(e.fieldType), err |-> NoErr]
       ELSE convertValue(value, e.fieldType)

\* HeaderExtractor.Extract
HeaderExtract(e, req) ==
  LET value == Get(req.header, e.headerName)
  IN IF value = <<>>
       THEN [val |-> Zero(e.fieldType), err |-> NoErr]
       ELSE convertValue(value, e.fieldType)

\* JSONExtractor.Extract on the bytes the executor read.  A body is
\* [kind |-> "empty"], [kind |-> "object", data |-> key -> JSON value],
\* [kind |-> "scalar", val |-> JSON value] (valid JSON, not an object) or
\* [kind |-> "invalid"].
JSONExtract(e, body) ==
  CASE body.kind = "empty" -> [val |-> Zero(e.fieldType), err |-> NoErr]
    [] body.kind = "object" ->
         IF e.jsonPath \notin DOMAIN body.data
           THEN [val |-> Zero(e.fieldType), err |-> NoErr]
           ELSE jsonUnmarshal(body.data[e.jsonPath], e.fieldType)
    [] body.kind = "scalar" -> jsonUnmarshal(body.val, e.fieldType)
    [] OTHER -> [val |-> NilV, err |-> PlainError(<<"json: invalid", e.fieldType>>)]

\* FieldExtractor.Extract(r, vars, body)
Extract(e, req, body) ==
  CASE e.kind = "path" -> PathExtract(e, req)
    [] e.kind = "query" -> QueryExtract(e, req)
    [] e.kind = "header" -> HeaderExtract(e, req)
    [] e.kind = "json" -> JSONExtract(e, body)
    [] OTHER -> [val |-> NilV, err |-> NoErr]

\* strings.EqualFold on the field names of the model
Lower(n) ==
  CASE n = "UserID" -> "userid" [] n = "Username" -> "username"
    [] n = "Owner" -> "owner" [] n = "Level" -> "level"
    [] n = "Who" -> "who" [] n = "Strict" -> "strict"
    [] n = "Message" -> "message" [] OTHER -> n

\* "for v.Kind() == reflect.Ptr": the value behind the pointers, nil behind
\* a nil pointer
RECURSIVE Deref(_)
Deref(v) ==
  IF Kind(v.t) # "Ptr" THEN v
  ELSE IF v.v = <<>> THEN NilV
  ELSE Deref(v.v[1])

\* field selection by the exact name only
RECURSIVE extractNestedFieldExact(_, _)
extractNestedFieldExact(obj, path) ==
  IF path = <<>> THEN obj
  ELSE LET v == Deref(obj)
       IN IF v.t = "nil" \/ Kind(v.t) # "Struct" THEN NilV
          ELSE LET hit == {i \in FieldIdx(v.t) : Field(v.t, i).name = Head(path)}
               IN IF hit = {} THEN NilV
                  ELSE extractNestedFieldExact(v.v[CHOOSE i \in hit : TRUE], Tail(path))

\* extractNestedField(obj, path): nil when a segment is missing, behind a nil
\* pointer or when the current value is not a struct
RECURSIVE extractNestedField(_, _)
extractNestedField(obj, path) ==
  IF path = <<>> THEN obj
  ELSE LET v == Deref(obj)
       IN IF v.t = "nil" \/ Kind(v.t) # "Struct" THEN NilV
          ELSE LET exact == {i \in FieldIdx(v.t) : Field(v.t, i).name = Head(path)}
                   fold == {i \in FieldIdx(v.t) :
                              Lower(Field(v.t, i).name) = Lower(Head(path))}
                   hit == IF exact # {} THEN exact ELSE fold
               IN IF hit = {} THEN NilV
                  ELSE extractNestedField(v.v[CHOOSE i \in hit : \A j \in hit : i <= j],
                                          Tail(path))

\* a binding that takes the whole result whatever the path of the tag
DepValueWhole(e, depResult) == depResult

\* the value a dependency-sourced field receives from the resolved result
DepValue(e, depResult) ==
  IF Len(e.fieldPath) > 1
    THEN extractNestedField(depResult, Tail(e.fieldPath))
    ELSE depResult

\* a validation that accepts everything
AlwaysValid(obj, validators) == NoErr

\* validateStruct: the rule "required" fails on the zero value of the field;
\* the error lists, per failing field name, its violations
validateStruct(obj, validators) ==
  LET bad == {i \in DOMAIN validators :
                validators[i] = "required" /\ obj.v[i] = Zero(Field(obj.t, i).type)}
      names == {Field(obj.t, i).name : i \in bad}
  IN IF bad = {} THEN NoErr
     ELSE NewValidationError([n \in names |-> <<"failed required validation">>])

\* ------------------------------------------------------ business functions
\* the strings of the requests
S7 == <<"7">>
SX == <<"x">>
STrue == <<"t", "r", "u", "e">>
T1 == <<"t", "1">>
T2 == <<"t", "2">>

\* What the registered functions return when they succeed: each result is
\* computed from the request value the function was given.
HandleResult(name, req) ==
  CASE name = "auth" ->
         [t |-> "AuthUser",
          v |-> (0 :> req.v[0]) @@ (1 :> Str(<<"j">>))
                  @@ (2 :> [t |-> "*Org",
                            v |-> IF req.v[0] = Str(T1)
                                    THEN <<[t |-> "Org", v |-> (0 :> Str(<<"o">>))]>>
                                    ELSE <<>>])]
    [] name = "whoami" ->
         [t |-> "Who", v |-> (0 :> req.v[0]) @@ (1 :> req.v[1])]
    [] name = "perm" ->
         [t |-> "Perm", v |-> (0 :> req.v[0].v[0]) @@ (1 :> req.v[1])]
    [] name = "audit" ->
         [t |-> "Audit", v |-> (0 :> req.v[0].v[0]) @@ (1 :> req.v[1])]
    [] name = "payload" -> [t |-> "Payload", v |-> (0 :> req.v[0])]
    [] OTHER -> [t |-> "Response", v |-> (0 :> Str(<<"o", "k">>))]

\* ... and the error each returns when it fails
HandleError(name) ==
  CASE name = "auth" -> NewError(401, "Token required")
    [] name = "perm" -> NewError(403, "Forbidden")
    [] name = "audit" -> PlainError(<<"audit unavailable", "">>)
    [] name = "whoami" -> NewError(401, "Unknown")
    [] OTHER -> NewError(404, "Not found")

\* ------------------------------------------------------------------ state
VARIABLES
  dependencies,  \* DependencyResolver.dependencies: name -> compiledDependency
  ch,            \* the CompiledHandler of the route
  rq,            \* rq[r]: the inbound request: path vars, query, header, body
  pc,            \* pc[r]: how far Execute got for request r
  body,          \* body[r]: the bytes Execute read (empty when not read)
  scope,         \* scope[r]: the ResolvedDependencies object request r uses
  resolved,      \* resolved[c]: the values map of ResolvedDependencies c
  stack,         \* stack[r]: activations; Execute at 1, Resolve calls above
  calls,         \* calls[r]: the business functions invoked, in order
  errCalls,      \* errCalls[r]: the errors passed to the error handler
  resp,          \* resp[r]: the responses written (status and body)
  failedAt,      \* failedAt[r]: the step whose error ended the request
  bodyReads      \* bodyReads[r]: number of io.ReadAll calls

reqVars == <<rq, pc, body, scope, resolved, stack, calls, errCalls, resp,
             failedAt, bodyReads>>

\* the state of one streaming response (streamEvents)
VARIABLES
  ssePc,       \* where streamEvents is: in the producer, or inside yield
  ctxDone,     \* the request context is cancelled
  events,      \* the events the producer yields, in order
  polite,      \* the producer returns as soon as yield returns false
  flusherOK,   \* the ResponseWriter is an http.Flusher
  next,        \* index of the event the producer yields next
  lastYield,   \* what the last call of yield returned ("none" before)
  out,         \* the lines written to the ResponseWriter
  flushedLen,  \* how many of them were flushed
  attempts,    \* number of calls of writeSSEEvent
  cancelAt,    \* where the loop was when the context was cancelled
  headers,     \* the headers set on the ResponseWriter of the stream
  writeFailAt  \* where the loop was when writeSSEEvent first failed

sseVars == <<ssePc, ctxDone, events, polite, flusherOK, next, lastYield, out,
             flushedLen, attempts, cancelAt, headers, writeFailAt>>

\* registration, and the pure functions applied to one input
VARIABLES
  routes,   \* Router.routes: the compiled handler of every registered route
  regOut,   \* how the last registration call ended
  fnIn,     \* the input a pure function is applied to
  fnOut,    \* its result ("none" before it is applied)
  openapi   \* OpenAPIBuilder.spec: the security schemes and the paths

sideVars == <<routes, regOut, fnIn, fnOut, openapi>>

vars == <<dependencies, ch, rq, pc, body, scope, resolved, stack, calls,
          errCalls, resp, failedAt, bodyReads, ssePc, ctxDone, events, polite,
          flusherOK, next, lastYield, out, flushedLen, attempts, cancelAt,
          headers, writeFailAt, routes, regOut, fnIn, fnOut, openapi>>

\* one activation of Execute (name "") or of Resolve(name): the request value
\* being populated, the field slots not visited yet, the slot waiting for a
\* nested Resolve
Frame(name, reqType, extractors) ==
  [name |-> name, reqValue |-> Zero(reqType), todo |-> DOMAIN extractors,
   wait |-> -1]

Top(r) == stack[r][Len(stack[r])]

\* the plan (extractors, validators) the activation works from
PlanOf(frame) == IF frame.name = "" THEN ch ELSE dependencies[frame.name]

NoFail == [at |-> "none", owner |-> "", idx |-> -1]

\* ---------------------------------------------------------- error handler
\* defaultErrorHandler: the response written for an error
defaultErrorHandler(err) ==
  CASE err.kind = "Error" ->
         [status |-> err.Status, code |-> err.Code, message |-> err.Message,
          details |-> err.Details, fields |-> <<>>]
    [] err.kind = "ValidationError" ->
         [status |-> err.Status, code |-> err.Code, message |-> err.Message,
          details |-> <<>>, fields |-> err.Fields]
    [] OTHER ->
         [status |-> 500, code |-> "INTERNAL_ERROR",
          message |-> "An internal error occurred", details |-> <<>>,
          fields |-> <<>>]

\* the wrapper a resolver could put around an error (DependencyError)
WrapErr(name, err) ==
  [kind |-> "DependencyError", DependencyName |-> name, Err |-> err]

\* Resolve(name) receives an error from a nested Resolve: "return nil, err"
PropagateErr(name, err) == err

\* the error as it leaves the Resolve activations frames (innermost first)
\* that received it from a callee
RECURSIVE Unwind(_, _)
Unwind(err, frames) ==
  IF frames = <<>> THEN err
  ELSE Unwind(PropagateErr(frames[Len(frames)].name, err),
              SubSeq(frames, 1, Len(frames) - 1))

\* Execute hands err to the error handler and returns
ErrorHandled(r, err, at) ==
  /\ errCalls' = [errCalls EXCEPT ![r] = Append(@, err)]
  /\ resp' = [resp EXCEPT ![r] = Append(@, defaultErrorHandler(err))]
  /\ failedAt' = [failedAt EXCEPT ![r] = at]
  /\ pc' = [pc EXCEPT ![r] = "Failed"]

\* an error raised inside the top activation: it returns it, every Resolve
\* below passes it down, Execute calls the error handler
Fail(r, err, at) ==
  LET n == Len(stack[r])
      below == IF n > 2 THEN SubSeq(stack[r], 2, n - 1) ELSE <<>>
  IN ErrorHandled(r, Unwind(err, below), at)

\* an error returned by the prologue of a Resolve call made by the top
\* activation (cache miss, name not registered)
FailCall(r, err, at) ==
  LET n == Len(stack[r])
      below == IF n > 1 THEN SubSeq(stack[r], 2, n) ELSE <<>>
  IN ErrorHandled(r, Unwind(err, below), at)

\* ------------------------------------------------------------ the resolver
\* a ResolvedDependencies object shared by every request (what Execute does
\* not do)
SharedResolved(r) == 1

\* Execute: resolved := &ResolvedDependencies{values: make(map...)}, a new
\* object for each call
NewResolved(r) == r

\* Resolve without the "already resolved" check
NeverCached(r, name) == FALSE

\* Resolve: "if val, ok := resolved.values[name]; ok"
Cached(r, name) == name \in DOMAIN resolved[scope[r]]

\* a store of something else than the result
StoreNil(values, name, result) == (name :> NilV) @@ values

\* Resolve: resolved.values[name] = result
Store(values, name, result) == (name :> result) @@ values

\* a Resolve that hides the error of the dependency's function
SwallowError(results) == [val |-> results.val, err |-> NoErr]

\* Resolve: what it returns from the results of dep.handlerFunc.Call
HandleReturn(results) ==
  IF results.err # NoErr
    THEN [val |-> NilV, err |-> results.err]
    ELSE [val |-> results.val, err |-> NoErr]

\* the slot idx of the top activation of stk has its value: "if value != nil"
\* convert and set it.  Execute sets a value that is not convertible as it
\* is, which panics in reflect; Resolve leaves the field alone.
Continue(r, stk, idx, value) ==
  LET n == Len(stk)
      fr == stk[n]
      ft == Field(PlanOf(fr).reqType, idx).type
      conv == value.t # "nil" /\ ConvertibleTo(value.t, ft)
      fr2 == IF conv
               THEN [fr EXCEPT !.reqValue.v[idx] = Convert(value, ft), !.wait = -1]
               ELSE [fr EXCEPT !.wait = -1]
  IN /\ stack' = [stack EXCEPT ![r] = [stk EXCEPT ![n] = fr2]]
     /\ pc' = [pc EXCEPT ![r] =
                 IF value.t # "nil" /\ ~conv /\ fr.name = "" THEN "Panicked"
                 ELSE IF n = 1 /\ fr.todo = {} THEN "Bound"
                 ELSE "BodyRead"]

\* the top activation takes slot idx and, when it is a dependency slot,
\* waits for it
Take(r, idx, waits) ==
  [stack[r] EXCEPT ![Len(stack[r])] =
     [@ EXCEPT !.todo = @ \ {idx}, !.wait = IF waits THEN idx ELSE -1]]

\* a Resolve that refuses a name it is already resolving
EnterOnce(r, idx, name) ==
  IF \E i \in 1..Len(stack[r]) : stack[r][i].name = name
    THEN /\ FailCall(r, PlainError(<<"dependency cycle", name>>),
                     [at |-> "cycle", owner |-> name, idx |-> idx])
         /\ stack' = [stack EXCEPT ![r] = Take(r, idx, TRUE)]
    ELSE /\ stack' = [stack EXCEPT ![r] =
                        Append(Take(r, idx, TRUE),
                               Frame(name, dependencies[name].reqType,
                                     dependencies[name].extractors))]
         /\ UNCHANGED <<pc, errCalls, resp, failedAt>>

\* Resolve(name) past its lookups: a new activation with its own request
\* value, whatever activations are below it; the goroutine dies of a stack
\* overflow when there is no room for one more
Enter(r, idx, name) ==
  IF Len(stack[r]) >= MaxDepth
    THEN /\ pc' = [pc EXCEPT ![r] = "Overflow"]
         /\ stack' = [stack EXCEPT ![r] = Take(r, idx, TRUE)]
         /\ UNCHANGED <<errCalls, resp, failedAt>>
    ELSE /\ stack' = [stack EXCEPT ![r] =
                        Append(Take(r, idx, TRUE),
                               Frame(name, dependencies[name].reqType,
                                     dependencies[name].extractors))]
         /\ UNCHANGED <<pc, errCalls, resp, failedAt>>

\* a Resolve that answers an unknown name with nil and no error
ResolveSkipUnknown(r, idx) ==
  LET e == PlanOf(Top(r)).extractors[idx]
      name == e.depName
  IN IF Cached(r, name)
       THEN /\ Continue(r, Take(r, idx, FALSE), idx,
                        DepValue(e, resolved[scope[r]][name]))
            /\ UNCHANGED <<errCalls, resp, failedAt>>
     ELSE IF name \notin DOMAIN dependencies
       THEN /\ Continue(r, Take(r, idx, FALSE), idx, NilV)
            /\ UNCHANGED <<errCalls, resp, failedAt>>
     ELSE /\ stack' = [stack EXCEPT ![r] =
                         Append(Take(r, idx, TRUE),
                                Frame(name, dependencies[name].reqType,
                                      dependencies[name].extractors))]
          /\ UNCHANGED <<pc, errCalls, resp, failedAt>>

\* DependencyResolver.Resolve up to the creation of the request value, called
\* by the top activation for its slot idx
Resolve(r, idx) ==
  LET e == PlanOf(Top(r)).extractors[idx]
      name == e.depName
  IN IF Cached(r, name)
       THEN /\ Continue(r, Take(r, idx, FALSE), idx,
                        DepValue(e, resolved[scope[r]][name]))
            /\ UNCHANGED <<errCalls, resp, failedAt>>
     ELSE IF name \notin DOMAIN dependencies
       THEN /\ FailCall(r, PlainError(<<"dependency not found", name>>),
                        [at |-> "notfound", owner |-> name, idx |-> idx])
            /\ stack' = [stack EXCEPT ![r] = Take(r, idx, TRUE)]
     ELSE Enter(r, idx, name)

\* the top activation extracts its slot idx from the request
ExtractSlot(r, idx) ==
  LET e == PlanOf(Top(r)).extractors[idx]
      res == Extract(e, rq[r], body[r])
  IN IF res.err.kind = "panic"
       THEN /\ pc' = [pc EXCEPT ![r] = "Panicked"]
            /\ stack' = [stack EXCEPT ![r] = Take(r, idx, FALSE)]
            /\ UNCHANGED <<errCalls, resp, failedAt>>
     ELSE IF res.err # NoErr
       THEN /\ Fail(r, res.err,
                    [at |-> "extract", owner |-> Top(r).name, idx |-> idx])
            /\ stack' = [stack EXCEPT ![r] = Take(r, idx, FALSE)]
       ELSE /\ Continue(r, Take(r, idx, FALSE), idx, res.val)
            /\ UNCHANGED <<errCalls, resp, failedAt>>

Binding(r) == pc[r] = "BodyRead" /\ Top(r).wait = -1

DepSlots(fr) == {i \in fr.todo : PlanOf(fr).extractors[i].kind = "dep"}
OwnSlots(fr) == {i \in fr.todo : PlanOf(fr).extractors[i].kind # "dep"}

\* ------------------------------------------------------------------ actions
\* Execute: read the body if the plan needs it, create the request value and
\* the ResolvedDependencies of this call
ReadBody(r) ==
  /\ pc[r] = "Idle"
  /\ LET reads == ch.hasJSONBody /\ rq[r].body.kind # "nil"
     IN \E ok \in (IF reads THEN BOOLEAN ELSE {TRUE}) :
          /\ bodyReads' = [bodyReads EXCEPT ![r] = IF reads THEN @ + 1 ELSE @]
          /\ IF ~ok
               THEN /\ ErrorHandled(r, PlainError(<<"failed to read request body", "">>),
                                    [at |-> "body", owner |-> "", idx |-> -1])
                    /\ UNCHANGED <<body, scope, resolved, stack>>
               ELSE /\ body' = [body EXCEPT ![r] =
                                  IF reads THEN rq[r].body ELSE [kind |-> "empty"]]
                    /\ scope' = [scope EXCEPT ![r] = NewResolved(r)]
                    /\ resolved' = [resolved EXCEPT ![NewResolved(r)] = <<>>]
                    /\ stack' = [stack EXCEPT ![r] =
                                   <<Frame("", ch.reqType, ch.extractors)>>]
                    /\ pc' = [pc EXCEPT ![r] =
                                IF DOMAIN ch.extractors = {} THEN "Bound"
                                ELSE "BodyRead"]
                    /\ UNCHANGED <<errCalls, resp, failedAt>>
  /\ UNCHANGED <<dependencies, ch, rq, calls>>
  /\ UNCHANGED sseVars /\ UNCHANGED sideVars

\* Execute, one iteration of "for fieldIdx, extractor := range ch.extractors"
\* on a slot that is not a dependency (the map is ranged in any order)
ExtractField(r) ==
  /\ Binding(r) /\ Len(stack[r]) = 1
  /\ \E idx \in OwnSlots(Top(r)) : ExtractSlot(r, idx)
  /\ UNCHANGED <<dependencies, ch, rq, body, scope, resolved, calls, bodyReads>>
  /\ UNCHANGED sseVars /\ UNCHANGED sideVars

\* Execute, one iteration on a dependency slot: call Resolve
BindDependency(r) ==
  /\ Binding(r) /\ Len(stack[r]) = 1
  /\ \E idx \in DepSlots(Top(r)) : Resolve(r, idx)
  /\ UNCHANGED <<dependencies, ch, rq, body, scope, resolved, calls, bodyReads>>
  /\ UNCHANGED sseVars /\ UNCHANGED sideVars

\* Resolve, one iteration of "for fieldIdx, extractor := range dep.extractors"
\* on a slot that is not a dependency
ResolveExtract(r) ==
  /\ Binding(r) /\ Len(stack[r]) > 1
  /\ \E idx \in OwnSlots(Top(r)) : ExtractSlot(r, idx)
  /\ UNCHANGED <<dependencies, ch, rq, body, scope, resolved, calls, bodyReads>>
  /\ UNCHANGED sseVars /\ UNCHANGED sideVars

\* Resolve, one iteration on a dependency slot: the recursive call
ResolveNested(r) ==
  /\ Binding(r) /\ Len(stack[r]) > 1
  /\ \E idx \in DepSlots(Top(r)) : Resolve(r, idx)
  /\ UNCHANGED <<dependencies, ch, rq, body, scope, resolved, calls, bodyReads>>
  /\ UNCHANGED sseVars /\ UNCHANGED sideVars

\* Resolve after its loop: validate, call the dependency's function, cache
\* the result and return it to the caller, which binds it
ResolveFinish(r) ==
  /\ Binding(r) /\ Len(stack[r]) > 1 /\ Top(r).todo = {}
  /\ LET fr == Top(r)
         dep == dependencies[fr.name]
         verr == validateStruct(fr.reqValue, dep.validators)
     IN IF verr # NoErr
          THEN /\ Fail(r, verr, [at |-> "validate", owner |-> fr.name, idx |-> -1])
               /\ UNCHANGED <<stack, calls, resolved>>
          ELSE \E ok \in BOOLEAN :
                 LET results == IF ok
                                  THEN [val |-> HandleResult(fr.name, fr.reqValue),
                                        err |-> NoErr]
                                  ELSE [val |-> Zero(dep.respType),
                                        err |-> HandleError(fr.name)]
                     ret == HandleReturn(results)
                     stk == SubSeq(stack[r], 1, Len(stack[r]) - 1)
                     caller == stk[Len(stk)]
                 IN /\ calls' = [calls EXCEPT ![r] =
                                   Append(@, [fn |-> fr.name, req |-> fr.reqValue,
                                              out |-> results])]
                    /\ IF ret.err # NoErr
                         THEN /\ Fail(r, ret.err,
                                      [at |-> "call", owner |-> fr.name, idx |-> -1])
                              /\ UNCHANGED <<stack, resolved>>
                         ELSE /\ resolved' = [resolved EXCEPT ![scope[r]] =
                                                Store(@, fr.name, ret.val)]
                              /\ Continue(r, stk, caller.wait,
                                          DepValue(PlanOf(caller).extractors[caller.wait],
                                                   ret.val))
                              /\ UNCHANGED <<errCalls, resp, failedAt>>
  /\ UNCHANGED <<dependencies, ch, rq, body, scope, bodyReads>>
  /\ UNCHANGED sseVars /\ UNCHANGED sideVars

\* Execute calling the error handler for a validation error without the
\* return that follows it
ValidateNoReturn(r) ==
  /\ pc[r] = "Bound"
  /\ LET verr == validateStruct(Top(r).reqValue, ch.validators)
     IN /\ errCalls' = [errCalls EXCEPT ![r] =
                          IF verr # NoErr THEN Append(@, verr) ELSE @]
        /\ resp' = [resp EXCEPT ![r] =
                      IF verr # NoErr THEN Append(@, defaultErrorHandler(verr)) ELSE @]
        /\ pc' = [pc EXCEPT ![r] = "Validated"]
        /\ UNCHANGED failedAt
  /\ UNCHANGED <<dependencies, ch, rq, body, scope, resolved, stack, calls, bodyReads>>
  /\ UNCHANGED sseVars /\ UNCHANGED sideVars

\* Execute: validateStruct(reqValue, ch.validators)
Validate(r) ==
  /\ pc[r] = "Bound"
  /\ LET verr == validateStruct(Top(r).reqValue, ch.validators)
     IN IF verr # NoErr
          THEN Fail(r, verr, [at |-> "validate", owner |-> "", idx |-> -1])
          ELSE /\ pc' = [pc EXCEPT ![r] = "Validated"]
               /\ UNCHANGED <<errCalls, resp, failedAt>>
  /\ UNCHANGED <<dependencies, ch, rq, body, scope, resolved, stack, calls, bodyReads>>
  /\ UNCHANGED sseVars /\ UNCHANGED sideVars

\* Execute: ch.handlerFunc.Call, and the error handler when it returns an error
Invoke(r) ==
  /\ pc[r] = "Validated"
  /\ \E ok \in BOOLEAN :
       LET results == IF ok
                        THEN [val |-> HandleResult("", Top(r).reqValue), err |-> NoErr]
                        ELSE [val |-> Zero(ch.respType), err |-> HandleError("")]
       IN /\ calls' = [calls EXCEPT ![r] =
                         Append(@, [fn |-> "", req |-> Top(r).reqValue, out |-> results])]
          /\ IF results.err # NoErr
               THEN Fail(r, results.err, [at |-> "call", owner |-> "", idx |-> -1])
               ELSE /\ pc' = [pc EXCEPT ![r] = "Invoked"]
                    /\ UNCHANGED <<errCalls, resp, failedAt>>
  /\ UNCHANGED <<dependencies, ch, rq, body, scope, resolved, stack, bodyReads>>
  /\ UNCHANGED sseVars /\ UNCHANGED sideVars

\* Execute: WriteHeader(200) and the encoded response (an encoding failure is
\* only printed)
Serialize(r) ==
  /\ pc[r] = "Invoked"
  /\ resp' = [resp EXCEPT ![r] =
                Append(@, [status |-> 200, body |-> calls[r][Len(calls[r])].out.val])]
  /\ pc' = [pc EXCEPT ![r] = "Serialized"]
  /\ UNCHANGED <<dependencies, ch, rq, body, scope, resolved, stack, calls,
                 errCalls, failedAt, bodyReads>>
  /\ UNCHANGED sseVars /\ UNCHANGED sideVars

\* ---------------------------------------------------------------- streaming
Line(k, v) == [k |-> k, v |-> v]

NotCancelled == [pc |-> "none", next |-> 0, attempts |-> 0, outLen |-> 0,
                 flushedLen |-> 0, flushed |-> 0]

NoWriteFail == [next |-> 0, attempts |-> 0, outLen |-> 0, flushedLen |-> 0]

\* number of complete events among the lines: each ends with the blank line
RECURSIVE CountEvents(_)
CountEvents(lines) ==
  IF lines = <<>> THEN 0
  ELSE (IF Head(lines).k = "end" THEN 1 ELSE 0) + CountEvents(Tail(lines))

\* fmt.Fprintf(w, "<k>: %s\n", text): the text goes out as it is, so a line
\* break in it ends the field line and what follows is a line of its own
Fprintf(k, text) ==
  LET parts == Split(text, "\n", <<>>)
  IN [i \in 1..Len(parts) |-> IF i = 1 THEN Line(k, parts[1]) ELSE Line("", parts[i])]

\* writeSSEEvent: the Fprintf calls it makes for an event, in order, and
\* whether json.Marshal of the payload fails after the event/id/retry lines
writeSSEEvent(ev) ==
  LET head == (IF ev.Event # <<>> THEN Fprintf("event", ev.Event) ELSE <<>>)
              \o (IF ev.ID # <<>> THEN Fprintf("id", ev.ID) ELSE <<>>)
              \o (IF ev.Retry > 0 THEN <<Line("retry", ev.Retry)>> ELSE <<>>)
      segs == Split(ev.Data.json, "\n", <<>>)
  IN IF ~ev.Data.ok
       THEN [lines |-> head, marshalErr |-> TRUE]
       ELSE [lines |-> head \o [i \in 1..Len(segs) |-> Line("data", segs[i])]
                            \o <<Line("end", <<>>)>>,
             marshalErr |-> FALSE]

\* streamEvents: the type assertion w.(http.Flusher), which answers with
\* http.Error when it fails, then iter(yieldFunc)
StreamStart ==
  /\ ssePc = "Start"
  /\ ssePc' = IF flusherOK THEN "Producer" ELSE "Done"
  /\ out' = IF flusherOK THEN out ELSE <<Line("http.Error", 500)>>
  /\ UNCHANGED <<ctxDone, events, polite, flusherOK, next, lastYield,
                 flushedLen, attempts, cancelAt>>
  /\ UNCHANGED <<dependencies, ch>> /\ UNCHANGED reqVars /\ UNCHANGED sideVars
  /\ UNCHANGED <<headers, writeFailAt>>

\* the producer: yields its next event, or returns
Produce ==
  /\ ssePc = "Producer"
  /\ IF next <= Len(events) /\ (lastYield # "false" \/ ~polite)
       THEN ssePc' = "Check"
       ELSE ssePc' = "Done"
  /\ UNCHANGED <<ctxDone, events, polite, flusherOK, next, lastYield, out,
                 flushedLen, attempts, cancelAt>>
  /\ UNCHANGED <<dependencies, ch>> /\ UNCHANGED reqVars /\ UNCHANGED sideVars
  /\ UNCHANGED <<headers, writeFailAt>>

\* a yield that does not look at the context
YieldNoCheck ==
  /\ ssePc = "Check"
  /\ ssePc' = "Write"
  /\ UNCHANGED <<ctxDone, events, polite, flusherOK, next, lastYield, out,
                 flushedLen, attempts, cancelAt>>
  /\ UNCHANGED <<dependencies, ch>> /\ UNCHANGED reqVars /\ UNCHANGED sideVars
  /\ UNCHANGED <<headers, writeFailAt>>

\* yieldFunc: "select { case <-ctx.Done(): return false; default: }"
YieldCheck ==
  /\ ssePc = "Check"
  /\ IF ctxDone
       THEN /\ ssePc' = "Producer"
            /\ lastYield' = "false"
            /\ next' = next + 1
       ELSE /\ ssePc' = "Write"
            /\ UNCHANGED <<lastYield, next>>
  /\ UNCHANGED <<ctxDone, events, polite, flusherOK, out, flushedLen,
                 attempts, cancelAt>>
  /\ UNCHANGED <<dependencies, ch>> /\ UNCHANGED reqVars /\ UNCHANGED sideVars
  /\ UNCHANGED <<headers, writeFailAt>>

\* a yield that goes on to the flush whether the writes succeeded or not
WriteEventKeepGoing ==
  /\ ssePc = "Write"
  /\ LET w == writeSSEEvent(events[next])
     IN \E n \in 0..Len(w.lines) :
          /\ out' = out \o SubSeq(w.lines, 1, n)
          /\ attempts' = attempts + 1
          /\ ssePc' = "Flush"
          /\ writeFailAt' =
               IF (n < Len(w.lines) \/ w.marshalErr) /\ writeFailAt = NoWriteFail
                 THEN [next |-> next, attempts |-> attempts + 1,
                       outLen |-> Len(out) + n, flushedLen |-> flushedLen]
                 ELSE writeFailAt
          /\ UNCHANGED <<lastYield, next>>
  /\ UNCHANGED <<ctxDone, events, polite, flusherOK, flushedLen, cancelAt>>
  /\ UNCHANGED <<dependencies, ch>> /\ UNCHANGED reqVars /\ UNCHANGED sideVars
  /\ UNCHANGED headers

\* yieldFunc: writeSSEEvent(w, eventData); n of its writes succeed.  On an
\* error it is printed and yield returns false, without a flush.
WriteEvent ==
  /\ ssePc = "Write"
  /\ LET w == writeSSEEvent(events[next])
     IN \E n \in 0..Len(w.lines) :
          /\ out' = out \o SubSeq(w.lines, 1, n)
          /\ attempts' = attempts + 1
          /\ IF n < Len(w.lines) \/ w.marshalErr
               THEN /\ ssePc' = "Producer"
                    /\ lastYield' = "false"
                    /\ next' = next + 1
                    /\ writeFailAt' =
                         IF writeFailAt = NoWriteFail
                           THEN [next |-> next, attempts |-> attempts + 1,
                                 outLen |-> Len(out) + n, flushedLen |-> flushedLen]
                           ELSE writeFailAt
               ELSE /\ ssePc' = "Flush"
                    /\ UNCHANGED <<lastYield, next, writeFailAt>>
  /\ UNCHANGED <<ctxDone, events, polite, flusherOK, flushedLen, cancelAt>>
  /\ UNCHANGED <<dependencies, ch>> /\ UNCHANGED reqVars /\ UNCHANGED sideVars
  /\ UNCHANGED headers

\* a yield that returns true without flushing
SkipFlush ==
  /\ ssePc = "Flush"
  /\ ssePc' = "Producer"
  /\ lastYield' = "true"
  /\ next' = next + 1
  /\ UNCHANGED <<ctxDone, events, polite, flusherOK, out, flushedLen,
                 attempts, cancelAt>>
  /\ UNCHANGED <<dependencies, ch>> /\ UNCHANGED reqVars /\ UNCHANGED sideVars
  /\ UNCHANGED <<headers, writeFailAt>>

\* yieldFunc: flusher.Flush() and return true
Flush ==
  /\ ssePc = "Flush"
  /\ flushedLen' = Len(out)
  /\ ssePc' = "Producer"
  /\ lastYield' = "true"
  /\ next' = next + 1
  /\ UNCHANGED <<ctxDone, events, polite, flusherOK, out, attempts, cancelAt>>
  /\ UNCHANGED <<dependencies, ch>> /\ UNCHANGED reqVars /\ UNCHANGED sideVars
  /\ UNCHANGED <<headers, writeFailAt>>

\* the client goes away: the request context is cancelled, at any moment of
\* the stream
Cancel ==
  /\ ssePc \in {"Producer", "Check", "Write", "Flush"}
  /\ ~ctxDone
  /\ ctxDone' = TRUE
  /\ cancelAt' = [pc |-> ssePc, next |-> next, attempts |-> attempts,
                  outLen |-> Len(out), flushedLen |-> flushedLen,
                  flushed |-> CountEvents(SubSeq(out, 1, flushedLen))]
  /\ UNCHANGED <<ssePc, events, polite, flusherOK, next, lastYield, out,
                 flushedLen, attempts>>
  /\ UNCHANGED <<dependencies, ch>> /\ UNCHANGED reqVars /\ UNCHANGED sideVars
  /\ UNCHANGED <<headers, writeFailAt>>

\* the events a producer may yield: a bare one, one whose name holds a line
\* break, one with every optional line and a payload serialized on two
\* lines, one that cannot be serialized
EventSet ==
  {[Event |-> <<>>, ID |-> <<>>, Retry |-> 0, Data |-> [ok |-> TRUE, json |-> <<"1">>]],
   [Event |-> <<"a", "\n", "b">>, ID |-> <<>>, Retry |-> 0,
    Data |-> [ok |-> TRUE, json |-> <<"2">>]],
   [Event |-> <<"e">>, ID |-> <<"i">>, Retry |-> 5,
    Data |-> [ok |-> TRUE, json |-> <<"a", "\n", "b">>]],
   [Event |-> <<"e">>, ID |-> <<>>, Retry |-> 0, Data |-> [ok |-> FALSE, json |-> <<>>]]}

EventSeqs == UNION {[1..n -> EventSet] : n \in 0..MaxEvents}

\* ---------------------------------------------------- the streaming executor
\* extractHandlerMetadata(reqType): the dependency names and whether a field
\* is read from the JSON body, as compileHandler computes them
extractHandlerMetadata(reqType) ==
  [dependencies |-> [i \in {j \in FieldIdx(reqType) : Field(reqType, j).tag.dep # <<>>}
                       |-> Field(reqType, i).tag.dep[1]],
   hasJSONBody |-> \E i \in FieldIdx(reqType) :
                      Field(reqType, i).tag.json # "" /\ Field(reqType, i).tag.json # "-"]

\* compileSSEHandler for a handler
\* func(context.Context, reqType) (iter.Seq[EventData[respType]], error)
compileSSEHandler(reqType, respType) ==
  LET c == compileStructExtractors(reqType)
      m == extractHandlerMetadata(reqType)
  IN [reqType |-> reqType, respType |-> respType,
      extractors |-> c.extractors, validators |-> c.validators,
      dependencies |-> m.dependencies, hasJSONBody |-> m.hasJSONBody]

\* the headers SSECompiledHandler.Execute sets
SSEHeaders ==
  [h \in {"Content-Type", "Cache-Control", "Connection",
          "Access-Control-Allow-Origin", "Access-Control-Allow-Headers"} |->
     CASE h = "Content-Type" -> "text/event-stream"
       [] h = "Cache-Control" -> "no-cache"
       [] h = "Connection" -> "keep-alive"
       [] h = "Access-Control-Allow-Origin" -> "*"
       [] OTHER -> "Cache-Control"]

\* an executor that sets no header
NoSSEHeaders(h) == h

\* Execute: the five w.Header().Set calls
SetSSEHeaders(h) == SSEHeaders @@ h

\* SSECompiledHandler.Execute up to extractFields: the headers, then
\* prepareRequest reads the body if the plan needs it and creates the request
\* value and the ResolvedDependencies of this call
SSEBegin(r) ==
  /\ pc[r] = "Idle"
  /\ headers' = SetSSEHeaders(headers)
  /\ LET reads == ch.hasJSONBody /\ rq[r].body.kind # "nil"
     IN \E ok \in (IF reads THEN BOOLEAN ELSE {TRUE}) :
          /\ bodyReads' = [bodyReads EXCEPT ![r] = IF reads THEN @ + 1 ELSE @]
          /\ IF ~ok
               THEN /\ ErrorHandled(r, PlainError(<<"failed to read request body", "">>),
                                    [at |-> "body", owner |-> "", idx |-> -1])
                    /\ UNCHANGED <<body, scope, resolved, stack>>
               ELSE /\ body' = [body EXCEPT ![r] =
                                  IF reads THEN rq[r].body ELSE [kind |-> "empty"]]
                    /\ scope' = [scope EXCEPT ![r] = NewResolved(r)]
                    /\ resolved' = [resolved EXCEPT ![NewResolved(r)] = <<>>]
                    /\ stack' = [stack EXCEPT ![r] =
                                   <<Frame("", ch.reqType, ch.extractors)>>]
                    /\ pc' = [pc EXCEPT ![r] =
                                IF DOMAIN ch.extractors = {} THEN "Bound"
                                ELSE "BodyRead"]
                    /\ UNCHANGED <<errCalls, resp, failedAt>>
  /\ UNCHANGED <<dependencies, ch, rq, calls>>
  /\ UNCHANGED <<ssePc, ctxDone, events, polite, flusherOK, next, lastYield, out,
                 flushedLen, attempts, cancelAt, writeFailAt>>
  /\ UNCHANGED sideVars

\* extractFields(ctx, reqValue, extractors, dependencies, r, vars, body,
\* depResolver, resolved): one field of the request value, bound as the
\* single-response executor binds it
extractFields(r) == ExtractField(r) \/ BindDependency(r)

\* prepareRequest: validateStruct(reqValue, sh.validators); Execute hands its
\* error to the error handler and returns
SSEValidate(r) ==
  /\ pc[r] = "Bound"
  /\ LET verr == validateStruct(Top(r).reqValue, ch.validators)
     IN IF verr # NoErr
          THEN Fail(r, verr, [at |-> "validate", owner |-> "", idx |-> -1])
          ELSE /\ pc' = [pc EXCEPT ![r] = "Validated"]
               /\ UNCHANGED <<errCalls, resp, failedAt>>
  /\ UNCHANGED <<dependencies, ch, rq, body, scope, resolved, stack, calls, bodyReads>>
  /\ UNCHANGED sseVars /\ UNCHANGED sideVars

\* the iterators a streaming handler may return
Iterators == {[kind |-> "iter", events |-> e, polite |-> p] :
                e \in {s \in EventSeqs : Len(s) <= 1}, p \in BOOLEAN}

\* Execute: sh.handlerFunc.Call; an error or a nil iterator goes to the error
\* handler, an iterator goes to streamEvents
SSEInvoke(r) ==
  /\ pc[r] = "Validated"
  /\ \E outcome \in {[kind |-> "error"], [kind |-> "nil"]} \cup Iterators :
       LET results ==
             CASE outcome.kind = "error" -> [val |-> NilV, err |-> HandleError("")]
               [] outcome.kind = "nil" -> [val |-> NilV, err |-> NoErr]
               [] OTHER -> [val |-> [t |-> "iter.Seq", v |-> outcome], err |-> NoErr]
       IN /\ calls' = [calls EXCEPT ![r] =
                         Append(@, [fn |-> "", req |-> Top(r).reqValue, out |-> results])]
          /\ IF results.err # NoErr
               THEN /\ Fail(r, results.err, [at |-> "call", owner |-> "", idx |-> -1])
                    /\ UNCHANGED <<ssePc, events, polite>>
             ELSE IF results.val = NilV
               THEN /\ Fail(r, PlainError(<<"handler returned nil iterator", "">>),
                            [at |-> "niliter", owner |-> "", idx |-> -1])
                    /\ UNCHANGED <<ssePc, events, polite>>
             ELSE /\ pc' = [pc EXCEPT ![r] = "Streaming"]
                  /\ ssePc' = "Start"
                  /\ events' = outcome.events
                  /\ polite' = outcome.polite
                  /\ UNCHANGED <<errCalls, resp, failedAt>>
  /\ UNCHANGED <<dependencies, ch, rq, body, scope, resolved, stack, bodyReads>>
  /\ UNCHANGED <<ctxDone, flusherOK, next, lastYield, out, flushedLen, attempts,
                 cancelAt, headers, writeFailAt>>
  /\ UNCHANGED sideVars

\* ----------------------------------------------------------- pure functions
\* no function is applied / it was not applied yet
NoIn == [fn |-> "none"]
NoOut == [done |-> FALSE]

\* the parts a caller puts between the commas of a list parameter: the text,
\* and for the statement of the result what it is without the blanks around
\* it and whether that is a number
Part(raw, trim, isNum, num) == [raw |-> raw, trim |-> trim, isNum |-> isNum, num |-> num]

PartSet ==
  {Part(<<"a">>, <<"a">>, FALSE, 0), Part(<<" ", "b">>, <<"b">>, FALSE, 0),
   Part(<<"c">>, <<"c">>, FALSE, 0), Part(<<"1">>, <<"1">>, TRUE, 1),
   Part(<<" ", "2", " ">>, <<"2">>, TRUE, 2), Part(<<>>, <<>>, FALSE, 0)}

\* the parameter value: the parts with a comma between them
RECURSIVE JoinRaw(_)
JoinRaw(ps) ==
  IF Len(ps) = 1 THEN ps[1].raw
  ELSE ps[1].raw \o <<",">> \o JoinRaw(Tail(ps))

\* the calls of convertValue for a slice field
ConvertInputs ==
  {[fn |-> "convertValue", parts |-> ps, value |-> JoinRaw(ps), targetType |-> t] :
     ps \in UNION {[1..n -> PartSet] : n \in 1..MaxParts},
     t \in {"[]string", "[]int", "[]int64"}}

\* the errors an error handler may be given: those of the constructors, a
\* ValidationError a handler built itself with its own status, plain errors
ErrorInputs ==
  {[fn |-> "defaultErrorHandler", err |-> e, ctor |-> "NewError"] :
     e \in {NewError(400, "Invalid input"), NewError(404, "Not found"),
            WithDetails(NewError(400, "Invalid input"),
                        ("field" :> "value is required")),
            NewErrorWithCode(409, "CONFLICT", "Exists")}}
  \cup {[fn |-> "defaultErrorHandler", ctor |-> "NewValidationError",
         err |-> NewValidationError(("Token" :> <<"failed required validation">>))],
        [fn |-> "defaultErrorHandler", ctor |-> "literal",
         err |-> [NewValidationError(("Level" :> <<"too large">>))
                    EXCEPT !.Status = 422]],
        [fn |-> "defaultErrorHandler", ctor |-> "literal",
         err |-> [NewValidationError(("Level" :> <<"too large">>))
                    EXCEPT !.Status = 0, !.Code = "", !.Message = ""]]}
  \cup {[fn |-> "defaultErrorHandler", err |-> e, ctor |-> "fmt.Errorf"] :
          e \in {PlainError(<<"strconv.ParseInt", SX>>),
                 PlainError(<<"dial db: password rejected", "">>)}}

\* convertValue(value, targetType) is called
ApplyConvertValue ==
  /\ fnIn.fn = "convertValue" /\ ~fnOut.done
  /\ fnOut' = [done |-> TRUE, res |-> convertValue(fnIn.value, fnIn.targetType)]
  /\ UNCHANGED <<dependencies, ch, routes, regOut, fnIn, openapi>>
  /\ UNCHANGED reqVars /\ UNCHANGED sseVars

\* errorHandler(w, r, err) is called
ApplyErrorHandler ==
  /\ fnIn.fn = "defaultErrorHandler" /\ ~fnOut.done
  /\ fnOut' = [done |-> TRUE, res |-> defaultErrorHandler(fnIn.err)]
  /\ UNCHANGED <<dependencies, ch, routes, regOut, fnIn, openapi>>
  /\ UNCHANGED reqVars /\ UNCHANGED sseVars

\* ------------------------------------------------------------- registration
\* a function value by its reflect.Type: NumIn, NumOut, In(0), In(1), Out(0),
\* Out(1)
FuncValue(numIn, numOut, in0, reqType, out0, out1) ==
  [kind |-> "func", numIn |-> numIn, numOut |-> numOut, in0 |-> in0,
   reqType |-> reqType, out0 |-> out0, out1 |-> out1]

FuncValues(reqTypes) ==
  {FuncValue(ni, no, i0, rt, o0, o1) :
     ni \in {1, 2}, no \in {1, 2}, i0 \in {"context.Context", "string"},
     rt \in reqTypes, o0 \in {"Response"} \cup IterTypes, o1 \in {"error", "string"}}

\* what a caller may pass as a handler: nil, a value that is no function, a
\* function of any shape
HandlerValues ==
  {[kind |-> "nil"], [kind |-> "value"]}
    \cup FuncValues({"DiamondRequest", "string", "*DiamondRequest"})

\* what a caller may pass as a dependency: nil, an object without a Handle
\* method, an object whose Handle method has any shape
DependencyValues ==
  {[kind |-> "nil"], [kind |-> "object", hasHandle |-> FALSE]}
    \cup {[kind |-> "object", hasHandle |-> TRUE, handle |-> f] :
            f \in FuncValues({"AuthRequest", "string"})}

\* how a registration call ends: it returns nil, returns an error, or panics
RegOK(c) == [result |-> "ok", err |-> "", compiled |-> c]
RegError(msg) == [result |-> "error", err |-> msg, compiled |-> <<>>]
RegPanic(msg) == [result |-> "panic", err |-> msg, compiled |-> <<>>]

NoReg == [op |-> "none", name |-> "", value |-> [kind |-> "nil"],
          result |-> "none", err |-> ""]

\* the signature checks compileHandler, compileSSEHandler and Register share:
\* the message of the error, "" when the type passes
SignatureError(f) ==
  IF f.numIn # 2 \/ f.numOut # 2 THEN "must have signature"
  ELSE IF f.in0 # "context.Context" THEN "first parameter must be context.Context"
  ELSE IF f.out1 # "error" THEN "second return value must be error"
  ELSE ""

\* compileStructExtractors(reqType) starts with structType.NumField(), which
\* panics when the type is not a struct
NumFieldPanics(t) == Kind(t) # "Struct"

\* compileHandler(handler)
compileHandlerValue(h) ==
  IF h.kind = "nil" THEN RegPanic("nil pointer dereference")
  ELSE IF h.kind # "func" THEN RegError("handler must be a function")
  ELSE IF SignatureError(h) # "" THEN RegError(SignatureError(h))
  ELSE IF NumFieldPanics(h.reqType)
    THEN RegPanic("reflect: NumField of non-struct type")
  ELSE RegOK(compileHandler(h.reqType, h.out0))

\* compileSSEHandler(handler)
compileSSEHandlerValue(h) ==
  IF h.kind = "nil" THEN RegPanic("nil pointer dereference")
  ELSE IF h.kind # "func" THEN RegError("handler must be a function")
  ELSE IF SignatureError(h) # "" THEN RegError(SignatureError(h))
  ELSE IF h.out0 \notin IterTypes
    THEN RegError("first return value must be iter.Seq[EventData[T]]")
  ELSE IF NumFieldPanics(h.reqType)
    THEN RegPanic("reflect: NumField of non-struct type")
  ELSE RegOK(compileSSEHandler(h.reqType, "Response"))

\* DependencyResolver.Register(name, dep) up to the store
registerValue(dep) ==
  IF dep.kind = "nil" THEN RegPanic("reflect: call of MethodByName on zero Value")
  ELSE IF ~dep.hasHandle THEN RegError("dependency must have a Handle method")
  ELSE IF SignatureError(dep.handle) # "" THEN RegError(SignatureError(dep.handle))
  ELSE IF NumFieldPanics(dep.handle.reqType)
    THEN RegPanic("reflect: NumField of non-struct type")
  ELSE RegOK(compileDependency(dep.handle.reqType, dep.handle.out0))

\* r.routes[routeKey] = compiled and the mux entry of the route
Route(sse, compiled) == [sse |-> sse, handler |-> compiled]

\* Router.registerRoute(method, path, handler)
registerRoute(key, h) ==
  /\ regOut.result # "panic"
  /\ LET c == compileHandlerValue(h)
     IN /\ regOut' = [op |-> "route", name |-> key, value |-> h,
                      result |-> c.result, err |-> c.err]
        /\ routes' = IF c.result = "ok"
                       THEN (key :> Route(FALSE, c.compiled)) @@ routes
                       ELSE routes
        /\ openapi' = IF c.result = "ok"
                        THEN [openapi EXCEPT !.paths = @ \cup {key}]
                        ELSE openapi
  /\ UNCHANGED <<dependencies, ch, fnIn, fnOut>>
  /\ UNCHANGED reqVars /\ UNCHANGED sseVars

\* Router.registerSSERoute(method, path, handler)
registerSSERoute(key, h) ==
  /\ regOut.result # "panic"
  /\ LET c == compileSSEHandlerValue(h)
     IN /\ regOut' = [op |-> "sse", name |-> key, value |-> h,
                      result |-> c.result, err |-> c.err]
        /\ routes' = IF c.result = "ok"
                       THEN (key :> Route(TRUE, c.compiled)) @@ routes
                       ELSE routes
        /\ openapi' = IF c.result = "ok"
                        THEN [openapi EXCEPT !.paths = @ \cup {key}]
                        ELSE openapi
  /\ UNCHANGED <<dependencies, ch, fnIn, fnOut>>
  /\ UNCHANGED reqVars /\ UNCHANGED sseVars

\* DependencyResolver.Register(name, dep)
Register(name, dep) ==
  /\ regOut.result # "panic"
  /\ LET c == registerValue(dep)
     IN /\ regOut' = [op |-> "dep", name |-> name, value |-> dep,
                      result |-> c.result, err |-> c.err]
        /\ dependencies' = IF c.result = "ok"
                             THEN (name :> c.compiled) @@ dependencies
                             ELSE dependencies
  /\ UNCHANGED <<ch, routes, fnIn, fnOut, openapi>>
  /\ UNCHANGED reqVars /\ UNCHANGED sseVars

\* OpenAPIBuilder.AddSecurityScheme(schemeType): the name the scheme is
\* stored under, "" for a type it does not know
SchemeName(schemeType) ==
  CASE schemeType = "bearer" -> "BearerAuth"
    [] schemeType = "basic" -> "BasicAuth"
    [] schemeType = "apiKey" -> "ApiKeyAuth"
    [] OTHER -> ""

\* RegisterDependency: "for _, schemeType := range schemeTypes", which
\* returns at the first scheme type AddSecurityScheme refuses
RECURSIVE AddSecuritySchemes(_, _)
AddSecuritySchemes(schemes, schemeTypes) ==
  IF schemeTypes = <<>> THEN [schemes |-> schemes, err |-> ""]
  ELSE IF SchemeName(Head(schemeTypes)) = ""
    THEN [schemes |-> schemes, err |-> "unknown security scheme type"]
  ELSE AddSecuritySchemes(schemes \cup {SchemeName(Head(schemeTypes))},
                          Tail(schemeTypes))

\* the scheme types a caller may pass ("oauth2" is none the builder knows)
SchemeTypeSeqs ==
  {<<>>, <<"bearer">>, <<"oauth2">>, <<"bearer", "oauth2">>, <<"oauth2", "basic">>}

\* Router.RegisterDependency(name, dep, schemeTypes...)
RegisterDependency(name, dep, schemeTypes) ==
  /\ regOut.result # "panic"
  /\ LET c == registerValue(dep)
         a == AddSecuritySchemes(openapi.schemes, schemeTypes)
     IN IF c.result # "ok"
          THEN /\ regOut' = [op |-> "dep", name |-> name, value |-> dep,
                             result |-> c.result, err |-> c.err]
               /\ UNCHANGED <<dependencies, openapi>>
          ELSE /\ dependencies' = (name :> c.compiled) @@ dependencies
               /\ openapi' = [openapi EXCEPT !.schemes = a.schemes]
               /\ regOut' = [op |-> "dep", name |-> name, value |-> dep,
                             result |-> IF a.err = "" THEN "ok" ELSE "error",
                             err |-> a.err]
  /\ UNCHANGED <<ch, routes, fnIn, fnOut>>
  /\ UNCHANGED reqVars /\ UNCHANGED sseVars

\* ------------------------------------------------------- initial conditions
Maps(k, vals) == {<<>>} \cup {(k :> v) : v \in vals}

\* the requests a client may send
VarsSet == Maps("id", {S7, SX})
QuerySet == {l @@ d : l \in Maps("level", {S7}), d \in Maps("details", {STrue})}
HeaderSet == {a @@ x : a \in Maps("Authorization", {T1, T2}), x \in Maps("X-Strict", {<<"1">>})}
BodySet == {[kind |-> "nil"], [kind |-> "empty"], [kind |-> "invalid"],
            [kind |-> "object", data |-> <<>>],
            [kind |-> "object", data |-> ("data" :> Str(<<"h", "i">>))],
            [kind |-> "object", data |-> ("data" :> [t |-> "int", v |-> 5])],
            [kind |-> "scalar", val |-> Str(<<"h", "i">>)]}

Requests == [vars : VarsSet, query : QuerySet, header : HeaderSet, body : BodySet]

NoRequest == [vars |-> <<>>, query |-> <<>>, header |-> <<>>, body |-> [kind |-> "nil"]]

\* the state of request r before Execute is called
InitRequests(started) ==
  /\ pc = [r \in Reqs |-> IF r \in started THEN "Idle" ELSE "None"]
  /\ body = [r \in Reqs |-> [kind |-> "empty"]]
  /\ scope = [r \in Reqs |-> 0]
  /\ resolved = [c \in Reqs |-> <<>>]
  /\ stack = [r \in Reqs |-> <<>>]
  /\ calls = [r \in Reqs |-> <<>>]
  /\ errCalls = [r \in Reqs |-> <<>>]
  /\ resp = [r \in Reqs |-> <<>>]
  /\ failedAt = [r \in Reqs |-> NoFail]
  /\ bodyReads = [r \in Reqs |-> 0]

\* the document of a new OpenAPIBuilder
NoOpenAPI == [schemes |-> {}, paths |-> {}]

\* nothing was registered through the router, no pure function is applied
NoSide ==
  /\ routes = <<>> /\ regOut = NoReg /\ fnIn = NoIn /\ fnOut = NoOut
  /\ openapi = NoOpenAPI

NoStream ==
  /\ ssePc = "None" /\ ctxDone = FALSE /\ events = <<>> /\ polite = TRUE
  /\ flusherOK = TRUE /\ next = 1 /\ lastYield = "none" /\ out = <<>>
  /\ flushedLen = 0 /\ attempts = 0 /\ cancelAt = NotCancelled
  /\ headers = <<>> /\ writeFailAt = NoWriteFail

\* one request to a route whose handler is any of Handlers
Init ==
  /\ dependencies = Registry
  /\ ch \in Handlers
  /\ \E q \in Requests : rq = [r \in Reqs |-> IF r = 1 THEN q ELSE NoRequest]
  /\ InitRequests({1})
  /\ NoStream
  /\ NoSide

RequestStep(r) ==
  \/ ReadBody(r)
  \/ ExtractField(r)
  \/ BindDependency(r)
  \/ ResolveExtract(r)
  \/ ResolveNested(r)
  \/ ResolveFinish(r)
  \/ Validate(r)
  \/ Invoke(r)
  \/ Serialize(r)

Next == \E r \in Reqs : RequestStep(r)

Spec == Init /\ [][Next]_vars

\* the token of the client of request r: every client has its own
Token(r) == <<"t", <<"1", "2", "3", "4", "5", "6", "7", "8", "9">>[r]>>

\* NumReqs clients call the diamond route at the same time, each with its
\* own Authorization header
InitConc ==
  /\ dependencies = Registry
  /\ ch = compileHandler("DiamondRequest", "Response")
  /\ rq = [r \in Reqs |->
             [vars |-> ("id" :> S7),
              query |-> ("level" :> S7) @@ ("details" :> STrue),
              header |-> ("Authorization" :> Token(r)),
              body |-> [kind |-> "nil"]]]
  /\ InitRequests(Reqs)
  /\ NoStream
  /\ NoSide

SpecConc == InitConc /\ [][Next]_vars

\* streamEvents is called with the iterator the handler returned
InitSSE ==
  /\ dependencies = Registry
  /\ ch = compileHandler("DiamondRequest", "Response")
  /\ rq = [r \in Reqs |-> NoRequest]
  /\ InitRequests({})
  /\ ssePc = "Start" /\ ctxDone = FALSE
  /\ events \in EventSeqs /\ polite \in BOOLEAN /\ flusherOK \in BOOLEAN
  /\ next = 1 /\ lastYield = "none" /\ out = <<>>
  /\ flushedLen = 0 /\ attempts = 0 /\ cancelAt = NotCancelled
  /\ headers = <<>> /\ writeFailAt = NoWriteFail
  /\ NoSide

NextSSE ==
  \/ StreamStart
  \/ Produce
  \/ YieldCheck
  \/ WriteEvent
  \/ Flush
  \/ Cancel

SpecSSE == InitSSE /\ [][NextSSE]_vars

\* the goroutine that runs streamEvents is scheduled again and again, so the
\* step it is at is taken; nothing makes the client cancel
StreamStep == StreamStart \/ Produce \/ YieldCheck \/ WriteEvent \/ Flush

SpecSSEFair == InitSSE /\ [][NextSSE]_vars /\ WF_vars(StreamStep)

\* one streaming request: Execute of an SSECompiledHandler, whose iterator
\* streamEvents then drives
InitSSEExec ==
  /\ dependencies = Registry
  /\ ch \in {compileSSEHandler(t, "Response") : t \in {"ChainRequest", "DiamondRequest"}}
  /\ \E q \in Requests : rq = [r \in Reqs |-> IF r = 1 THEN q ELSE NoRequest]
  /\ InitRequests({1})
  /\ ssePc = "None" /\ ctxDone = FALSE /\ events = <<>> /\ polite = TRUE
  /\ flusherOK \in BOOLEAN /\ next = 1 /\ lastYield = "none" /\ out = <<>>
  /\ flushedLen = 0 /\ attempts = 0 /\ cancelAt = NotCancelled
  /\ headers = <<>> /\ writeFailAt = NoWriteFail
  /\ NoSide

NextSSEExec ==
  \/ SSEBegin(1)
  \/ extractFields(1)
  \/ ResolveExtract(1)
  \/ ResolveNested(1)
  \/ ResolveFinish(1)
  \/ SSEValidate(1)
  \/ SSEInvoke(1)
  \/ NextSSE

SpecSSEExec == InitSSEExec /\ [][NextSSEExec]_vars

\* one request to a route of an application whose registry has cycles
InitCycle ==
  /\ dependencies = CycleRegistry
  /\ ch \in {compileHandler(t, "Response") :
               t \in {"LoopRequest", "PingPongRequest", "DiamondRequest"}}
  /\ \E q \in Requests : rq = [r \in Reqs |-> IF r = 1 THEN q ELSE NoRequest]
  /\ InitRequests({1})
  /\ NoStream
  /\ NoSide

SpecCycle == InitCycle /\ [][Next]_vars

\* one request to a route of an application whose registry has payload: the
\* request type of the route has no JSON-sourced field (QuietRequest,
\* DiamondRequest) or has one (EchoRequest)
InitPayload ==
  /\ dependencies = PayloadRegistry
  /\ ch \in {compileHandler(t, "Response") :
               t \in {"QuietRequest", "EchoRequest", "DiamondRequest"}}
  /\ \E q \in Requests : rq = [r \in Reqs |-> IF r = 1 THEN q ELSE NoRequest]
  /\ InitRequests({1})
  /\ NoStream
  /\ NoSide

SpecPayload == InitPayload /\ [][Next]_vars

\* the same request is executed twice on the same plan
TwinRequests ==
  [vars : VarsSet, query : {("level" :> S7) @@ ("details" :> STrue)},
   header : Maps("Authorization", {T1}), body : {[kind |-> "nil"]}]

InitTwin ==
  /\ dependencies = Registry
  /\ ch = compileHandler("DiamondRequest", "Response")
  /\ \E q \in TwinRequests :
       rq = [r \in Reqs |-> IF r \in {1, 2} THEN q ELSE NoRequest]
  /\ InitRequests({1, 2})
  /\ NoStream
  /\ NoSide

SpecTwin == InitTwin /\ [][Next]_vars

\* sibling resolution in parallel: goroutine 1 resolves the slot User (auth)
\* of the diamond and goroutine 2 its slot Perm (perm, which needs auth), for
\* the same request and against the same ResolvedDependencies
Sibling(slot) ==
  [Frame("", "DiamondRequest", compileHandler("DiamondRequest", "Response").extractors)
     EXCEPT !.todo = {slot}]

InitPar ==
  /\ dependencies = Registry
  /\ ch = compileHandler("DiamondRequest", "Response")
  /\ \E q \in [vars : {("id" :> S7)}, query : QuerySet, header : HeaderSet,
                body : {[kind |-> "nil"]}] :
       rq = [r \in Reqs |-> IF r \in {1, 2} THEN q ELSE NoRequest]
  /\ pc = [r \in Reqs |-> IF r \in {1, 2} THEN "BodyRead" ELSE "None"]
  /\ body = [r \in Reqs |-> [kind |-> "empty"]]
  /\ scope = [r \in Reqs |-> IF r \in {1, 2} THEN 1 ELSE 0]
  /\ resolved = [c \in Reqs |-> <<>>]
  /\ stack = [r \in Reqs |-> IF r \in {1, 2} THEN <<Sibling(r - 1)>> ELSE <<>>]
  /\ calls = [r \in Reqs |-> <<>>]
  /\ errCalls = [r \in Reqs |-> <<>>]
  /\ resp = [r \in Reqs |-> <<>>]
  /\ failedAt = [r \in Reqs |-> NoFail]
  /\ bodyReads = [r \in Reqs |-> 0]
  /\ NoStream
  /\ NoSide

\* the steps of the Resolve calls of the goroutines, in any interleaving:
\* the mutex of ResolvedDependencies is held for the lookup and for the store
\* only
NextPar ==
  \E r \in {1, 2} :
    \/ BindDependency(r)
    \/ ResolveExtract(r)
    \/ ResolveNested(r)
    \/ ResolveFinish(r)

SpecPar == InitPar /\ [][NextPar]_vars

\* the application registers its dependencies and routes on a new router
InitReg ==
  /\ dependencies = <<>>
  /\ ch = compileHandler("DiamondRequest", "Response")
  /\ rq = [r \in Reqs |-> NoRequest]
  /\ InitRequests({})
  /\ NoStream
  /\ NoSide

NextReg ==
  \/ \E key \in {"GET:/d"}, h \in HandlerValues : registerRoute(key, h)
  \/ \E key \in {"GET:/s"}, h \in HandlerValues : registerSSERoute(key, h)
  \/ \E name \in {"auth", "perm"}, dep \in DependencyValues : Register(name, dep)

SpecReg == InitReg /\ [][NextReg]_vars

\* the application registers dependencies with their security schemes, and a
\* route, through the Router
NextRouter ==
  \/ \E name \in {"auth"}, dep \in DependencyValues, st \in SchemeTypeSeqs :
       RegisterDependency(name, dep, st)
  \/ \E key \in {"GET:/d"}, h \in HandlerValues : registerRoute(key, h)

SpecRouter == InitReg /\ [][NextRouter]_vars

\* one call of a pure function on any of its inputs
InitFn ==
  /\ dependencies = Registry
  /\ ch = compileHandler("DiamondRequest", "Response")
  /\ rq = [r \in Reqs |-> NoRequest]
  /\ InitRequests({})
  /\ NoStream
  /\ routes = <<>> /\ regOut = NoReg /\ openapi = NoOpenAPI
  /\ fnIn \in ConvertInputs \cup ErrorInputs
  /\ fnOut = NoOut

NextFn == ApplyConvertValue \/ ApplyErrorHandler

SpecFn == InitFn /\ [][NextFn]_vars

\* =================================================================== claims
Frames(r) == {stack[r][i] : i \in 1..Len(stack[r])}

Calls(r) == {calls[r][i] : i \in 1..Len(calls[r])}

\* number of executions of the function of dependency n in request r
ExecCount(r, n) == Cardinality({i \in 1..Len(calls[r]) : calls[r][i].fn = n})

\* C1: within one request the Handle function of a dependency runs at most
\* once, and exactly once when its resolution succeeded (it returned no error,
\* its result is in the cache), however many fields reference it and in
\* whatever order the slots are visited.
C1_ExactlyOncePerRequest ==
  \A r \in Reqs : \A n \in DOMAIN dependencies :
    /\ ExecCount(r, n) <= 1
    /\ (\E c \in Calls(r) : c.fn = n /\ c.out.err = NoErr) => ExecCount(r, n) = 1
    /\ (scope[r] # 0 /\ n \in DOMAIN resolved[scope[r]]) => ExecCount(r, n) = 1

\* the diamond was served: auth was referenced by the handler and by perm
C1_Witness ==
  /\ ch.reqType = "DiamondRequest" /\ pc[1] = "Serialized"
  /\ ExecCount(1, "auth") = 1 /\ ExecCount(1, "perm") = 1

\* C2: the cache of a request is its own: no two requests use the same
\* ResolvedDependencies, every cached value was returned by a call made in
\* this request, the values bound into the handler's request come from this
\* request's own token, and each dependency ran once in a request served.
C2_CacheIsPerRequest ==
  \A r \in Reqs :
    /\ scope[r] # 0 =>
         /\ \A r2 \in Reqs \ {r} : scope[r2] # scope[r]
         /\ \A n \in DOMAIN resolved[scope[r]] :
              \E c \in Calls(r) : c.fn = n /\ c.out.err = NoErr
                                   /\ c.out.val = resolved[scope[r]][n]
    /\ \A c \in Calls(r) : c.fn = "auth" => c.req.v[0] = Str(Token(r))
    /\ \A c \in Calls(r) : c.fn = "" =>
         /\ c.req.v[0].v[0] = Str(Token(r))
         /\ c.req.v[1].v[0] = Str(Token(r))
    /\ pc[r] = "Serialized" => ExecCount(r, "auth") = 1 /\ ExecCount(r, "perm") = 1

\* request 1 has cached auth while request 2 is in the middle of resolving it
C2_Witness ==
  /\ pc[1] = "BodyRead" /\ pc[2] = "BodyRead"
  /\ "auth" \in DOMAIN resolved[scope[1]]
  /\ "auth" \notin DOMAIN resolved[scope[2]]
  /\ Len(stack[2]) > 1 /\ Top(2).name = "auth"

\* the validation error of a request value, written without validateStruct
ExpectedValidationError(fr) ==
  LET plan == PlanOf(fr)
      bad == {i \in DOMAIN plan.validators :
                fr.reqValue.v[i] = Zero(Field(plan.reqType, i).type)}
  IN [kind |-> "ValidationError", Status |-> 400, Code |-> "VALIDATION_ERROR",
      Message |-> "Validation failed",
      Fields |-> [n \in {Field(plan.reqType, i).name : i \in bad}
                    |-> <<"failed required validation">>]]

\* C3: when the validation of a request value fails, at whatever depth of
\* nested resolution, the one error the error handler receives is that
\* ValidationError with its field -> violations map, not wrapped or replaced.
C3_ValidationErrorIntact ==
  \A r \in Reqs :
    failedAt[r].at = "validate" =>
      /\ Top(r).name = failedAt[r].owner
      /\ errCalls[r] = <<ExpectedValidationError(Top(r))>>
      /\ resp[r][1].status = 400
      /\ resp[r][1].fields = ExpectedValidationError(Top(r)).Fields

\* validation failed in auth, reached through audit and perm
C3_Witness ==
  /\ failedAt[1].at = "validate" /\ failedAt[1].owner = "auth"
  /\ Len(stack[1]) = 4
  /\ errCalls[1][1].kind = "ValidationError"
  /\ DOMAIN errCalls[1][1].Fields = {"Token"}

\* C4: when the function of a dependency returns an error, at whatever depth,
\* the error handler receives exactly that error value, once, and the only
\* response of the request is the one the error handler made from it.
C4_BusinessErrorIntact ==
  \A r \in Reqs : \A c \in Calls(r) :
    (c.fn # "" /\ c.out.err # NoErr) =>
      /\ c.out.err = HandleError(c.fn)
      /\ errCalls[r] = <<c.out.err>>
      /\ resp[r] = <<defaultErrorHandler(c.out.err)>>
      /\ pc[r] = "Failed"

\* auth returned its 401 while being resolved for perm, for audit
C4_Witness ==
  /\ failedAt[1].at = "call" /\ failedAt[1].owner = "auth"
  /\ Len(stack[1]) = 4
  /\ errCalls[1] = <<NewError(401, "Token required")>>
  /\ resp[1][1].status = 401

\* the plan of the function a call invoked
PlanOfFn(fn) == IF fn = "" THEN ch ELSE dependencies[fn]

\* the request value passes its rules (written without validateStruct)
Valid(obj, validators) ==
  \A i \in DOMAIN validators :
    validators[i] = "required" => obj.v[i] # Zero(Field(obj.t, i).type)

\* slot i of the request value req of request r holds what its source gives
SlotBound(r, plan, req, i) ==
  LET e == plan.extractors[i]
      ft == Field(plan.reqType, i).type
  IN IF e.kind = "dep"
       THEN /\ e.depName \in DOMAIN resolved[scope[r]]
            /\ LET val == DepValue(e, resolved[scope[r]][e.depName])
               IN (val.t # "nil" /\ ConvertibleTo(val.t, ft)) =>
                    req.v[i] = Convert(val, ft)
       ELSE /\ Extract(e, rq[r], body[r]).err = NoErr
            /\ req.v[i] = Convert(Extract(e, rq[r], body[r]).val, ft)

\* C5: a handler function or a dependency's function is invoked only with a
\* request value all of whose slots were obtained without error and which
\* passes validation; a function whose binding or validation failed, or which
\* was waiting for a resolution that failed, is not invoked in the request.
C5_InvokedOnlyWhenBoundAndValid ==
  \A r \in Reqs :
    /\ \A c \in Calls(r) :
         /\ c.req.t = PlanOfFn(c.fn).reqType
         /\ Valid(c.req, PlanOfFn(c.fn).validators)
         /\ \A i \in DOMAIN PlanOfFn(c.fn).extractors :
              SlotBound(r, PlanOfFn(c.fn), c.req, i)
    /\ failedAt[r].at \in {"body", "extract", "notfound", "validate"} =>
         \A fr \in Frames(r) : ExecCount(r, fr.name) = 0
    /\ failedAt[r].at = "call" =>
         \A i \in 1..(Len(stack[r]) - 1) : ExecCount(r, stack[r][i].name) = 0

\* the chain was bound: auth, perm, audit and the handler were invoked
C5_Witness ==
  /\ ch.reqType = "ChainRequest" /\ pc[1] = "Invoked"
  /\ Len(calls[1]) = 4 /\ calls[1][4].fn = ""
  /\ calls[1][4].req.v[1] = Str(<<"h", "i">>)

Rank(s) ==
  CASE s = "Idle" -> 0 [] s = "BodyRead" -> 1 [] s = "Bound" -> 2
    [] s = "Validated" -> 3 [] s = "Invoked" -> 4 [] s = "Serialized" -> 5
    [] OTHER -> -1

Wrote200(r) == \E i \in 1..Len(resp[r]) : resp[r][i].status = 200

\* what holds of the stages in every state
C6_StageState(r) ==
  /\ Len(errCalls[r]) <= 1
  /\ (Len(errCalls[r]) = 1) <=> (pc[r] = "Failed")
  /\ pc[r] = "Failed" => ~Wrote200(r) /\ Len(resp[r]) = 1
  /\ Wrote200(r) <=> pc[r] = "Serialized"
  /\ Wrote200(r) =>
       /\ Len(resp[r]) = 1
       /\ calls[r][Len(calls[r])].fn = ""
       /\ calls[r][Len(calls[r])].out.err = NoErr
  /\ ExecCount(r, "") <= 1
  /\ ExecCount(r, "") = 1 => pc[r] \in {"Invoked", "Serialized", "Failed"}

\* what holds of every step: a stage is only left for the next one or for
\* Failed (or by a panic of the binding, which is no stage), and nothing
\* happens in a request that failed or was serialized
C6_StageStep(r) ==
  /\ pc'[r] # pc[r] =>
       /\ pc[r] \in {"Idle", "BodyRead", "Bound", "Validated", "Invoked"}
       /\ \/ Rank(pc'[r]) = Rank(pc[r]) + 1
          \/ pc'[r] = "Failed"
          \/ pc'[r] = "Panicked" /\ pc[r] = "BodyRead"
  /\ pc[r] \in {"Failed", "Serialized", "Panicked"} =>
       /\ calls'[r] = calls[r] /\ resp'[r] = resp[r]
       /\ errCalls'[r] = errCalls[r] /\ stack'[r] = stack[r]

Visited(fr, i) == i \in DOMAIN PlanOf(fr).extractors /\ i \notin fr.todo /\ fr.wait # i

FailedAtSlot(r, fr, i) ==
  failedAt[r] = [at |-> "extract", owner |-> fr.name, idx |-> i]

\* C7: a visited path slot whose variable is absent from the path variables
\* fails the binding with the "not found" error and the handler is not
\* invoked; a visited query or header slot of non-boolean type whose
\* parameter is absent holds the zero value of its type and did not fail.
C7_AbsentPathFailsAbsentQueryIsZero ==
  \A r \in Reqs : \A fr \in Frames(r) : \A i \in DOMAIN PlanOf(fr).extractors :
    LET e == PlanOf(fr).extractors[i]
    IN /\ (e.kind = "path" /\ e.paramName \notin DOMAIN rq[r].vars /\ Visited(fr, i)) =>
            /\ FailedAtSlot(r, fr, i)
            /\ pc[r] = "Failed"
            /\ errCalls[r] = <<PlainError(<<"path parameter not found", e.paramName>>)>>
            /\ ExecCount(r, "") = 0
       /\ (e.kind = "path" /\ e.paramName \notin DOMAIN rq[r].vars /\ fr.name = "") =>
            pc[r] \notin {"Bound", "Validated", "Invoked", "Serialized"}
       /\ (/\ e.kind \in {"query", "header"} /\ Kind(e.fieldType) # "Bool"
           /\ Get(IF e.kind = "query" THEN rq[r].query ELSE rq[r].header,
                  IF e.kind = "query" THEN e.paramName ELSE e.headerName) = <<>>
           /\ Visited(fr, i)) =>
            /\ fr.reqValue.v[i] = Zero(e.fieldType)
            /\ ~FailedAtSlot(r, fr, i)

\* the diamond request came without its path variable and its ID slot failed
C7_Witness ==
  /\ ch.reqType = "DiamondRequest" /\ "id" \notin DOMAIN rq[1].vars
  /\ failedAt[1] = [at |-> "extract", owner |-> "", idx |-> 2]
  /\ pc[1] = "Failed"

\* C8: a visited boolean slot with a query or a header source whose parameter
\* is absent holds false and did not fail.
C8_AbsentBoolIsFalse ==
  \A r \in Reqs : \A fr \in Frames(r) : \A i \in DOMAIN PlanOf(fr).extractors :
    LET e == PlanOf(fr).extractors[i]
    IN (/\ e.kind \in {"query", "header"} /\ Kind(e.fieldType) = "Bool"
        /\ Get(IF e.kind = "query" THEN rq[r].query ELSE rq[r].header,
               IF e.kind = "query" THEN e.paramName ELSE e.headerName) = <<>>
        /\ Visited(fr, i)) =>
         /\ fr.reqValue.v[i] = [t |-> "bool", v |-> FALSE]
         /\ ~FailedAtSlot(r, fr, i)

\* the context was cancelled while control was with the producer or at the
\* entry of yield, before its check of the context
CancelledAtBoundary == ctxDone /\ cancelAt.pc \in {"Producer", "Check"}

\* C9: yield checks the context before it writes.  Once the context is
\* cancelled at an iteration boundary nothing more is written, attempted or
\* flushed and every later yield returns false; a cancellation that arrives
\* inside a yield lets at most that one event finish.  With three events and
\* the cancellation after the second flush, two events are written and the
\* third is not attempted.
C9_CancellationWins ==
  /\ CancelledAtBoundary =>
       /\ out = SubSeq(out, 1, cancelAt.outLen) /\ Len(out) = cancelAt.outLen
       /\ flushedLen = cancelAt.flushedLen
       /\ attempts = cancelAt.attempts
       /\ ssePc \notin {"Write", "Flush"}
       /\ next > cancelAt.next => lastYield = "false"
  /\ ctxDone =>
       /\ attempts <= cancelAt.attempts + 1
       /\ CountEvents(out) <= CountEvents(SubSeq(out, 1, cancelAt.outLen)) + 1
       /\ (ssePc \in {"Producer", "Done"} /\ next > cancelAt.next + 1) =>
            lastYield = "false"
  /\ (CancelledAtBoundary /\ Len(events) = 3 /\ cancelAt.flushed = 2
        /\ cancelAt.next = 3) =>
       /\ CountEvents(out) = 2 /\ attempts = 2
       /\ ssePc = "Done" => next = 4 /\ lastYield = "false"

\* three events, cancelled after the second flush: the stream ended with two
\* events written and the third yield answered false
C9_Witness ==
  /\ Len(events) = 3 /\ ssePc = "Done" /\ CancelledAtBoundary
  /\ cancelAt.flushed = 2 /\ cancelAt.next = 3
  /\ CountEvents(out) = 2 /\ attempts = 2 /\ next = 4 /\ lastYield = "false"

\* the complete events among the lines that are not flushed yet
Unflushed == CountEvents(SubSeq(out, flushedLen + 1, Len(out)))

\* C10: a written event is flushed before control returns to the producer:
\* at most one complete event is ever unflushed, and none is whenever the
\* producer runs, yields its next event or has returned.
C10_NoBatching ==
  /\ Unflushed <= 1
  /\ ssePc \in {"Producer", "Check", "Write", "Done"} => Unflushed = 0
  /\ ssePc = "Flush" => Unflushed = 1 /\ out[Len(out)].k = "end"
  /\ lastYield = "true" /\ ssePc = "Producer" => flushedLen = Len(out)

\* two events were written and flushed and the producer goes on
C10_Witness ==
  /\ ssePc = "Check" /\ next = 3 /\ CountEvents(out) = 2
  /\ flushedLen = Len(out) /\ lastYield = "true"

\* the headers of a stream are on the ResponseWriter
StreamHeadersSet ==
  \A h \in DOMAIN SSEHeaders : h \in DOMAIN headers /\ headers[h] = SSEHeaders[h]

\* C11: in a streaming execution the streaming headers are set before
\* anything is written, the handler function is invoked at most once and only
\* with a bound and valid request value, exactly once when the stream runs;
\* when binding or validation failed it is not invoked, nothing is written to
\* the stream and the error handler was called once.
C11_StreamingOrder ==
  \A r \in Reqs :
    /\ (out # <<>> \/ ssePc # "None" \/ pc[r] \notin {"None", "Idle"}) => StreamHeadersSet
    /\ ExecCount(r, "") <= 1
    /\ \A c \in Calls(r) : c.fn = "" =>
         /\ Valid(c.req, ch.validators)
         /\ \A i \in DOMAIN ch.extractors : SlotBound(r, ch, c.req, i)
    /\ (pc[r] = "Streaming" \/ failedAt[r].at = "niliter"
          \/ failedAt[r] = [at |-> "call", owner |-> "", idx |-> -1]) =>
         ExecCount(r, "") = 1
    /\ ssePc # "None" => pc[r] = "Streaming" \/ r # 1
    /\ pc[r] = "Failed" =>
         /\ out = <<>> /\ ssePc = "None" /\ attempts = 0
         /\ Len(errCalls[r]) = 1
         /\ (failedAt[r].at \in {"body", "extract", "notfound", "validate"}
               \/ failedAt[r].owner # "") => ExecCount(r, "") = 0

\* the chain was bound and validated, the handler returned its iterator and
\* an event of it was written and flushed
C11_Witness ==
  /\ ch.reqType = "ChainRequest" /\ pc[1] = "Streaming"
  /\ ExecCount(1, "") = 1 /\ Len(calls[1]) = 4
  /\ CountEvents(out) = 1 /\ flushedLen = Len(out) /\ StreamHeadersSet

\* the shape of a function deviates from
\* (context, RequestType) -> (ResponseType, error), RequestType a struct
Deviates(f) ==
  \/ f.kind # "func"
  \/ f.numIn # 2 \/ f.numOut # 2
  \/ f.in0 # "context.Context" \/ f.out1 # "error"
  \/ f.reqType \notin {"DiamondRequest", "AuthRequest"}

\* the value of the last registration call is malformed
Malformed ==
  /\ regOut.op # "none"
  /\ IF regOut.op = "dep"
       THEN \/ regOut.value.kind # "object"
            \/ ~regOut.value.hasHandle
            \/ Deviates(regOut.value.handle)
       ELSE Deviates(regOut.value)

\* C12: a registration call given a value whose shape deviates returns a
\* structural error (it neither succeeds nor crashes), and nothing that is
\* registered has a request type that is not a struct.
C12_MalformedRejected ==
  /\ Malformed => regOut.result = "error"
  /\ \A k \in DOMAIN routes : Kind(routes[k].handler.reqType) = "Struct"
  /\ \A n \in DOMAIN dependencies : Kind(dependencies[n].reqType) = "Struct"

\* the dependency slots an activation has taken
TakenDeps(fr) ==
  {i \in DOMAIN PlanOf(fr).extractors :
     PlanOf(fr).extractors[i].kind = "dep" /\ i \notin fr.todo}

\* C13: resolving a name nobody registered, for a handler field or for a field
\* of another dependency, ends the request with the "not found" error of that
\* name: no function ran for the name, nothing is cached under it, the
\* activations waiting for it did not run their function and the handler
\* function is not invoked.
C13_UnknownDependencyNotFound ==
  \A r \in Reqs :
    /\ \A fr \in Frames(r) : \A i \in TakenDeps(fr) :
         LET name == PlanOf(fr).extractors[i].depName
         IN name \notin DOMAIN dependencies =>
              /\ pc[r] = "Failed"
              /\ failedAt[r] = [at |-> "notfound", owner |-> name, idx |-> i]
              /\ errCalls[r] = <<PlainError(<<"dependency not found", name>>)>>
              /\ resp[r] = <<defaultErrorHandler(errCalls[r][1])>>
              /\ ExecCount(r, fr.name) = 0
              /\ ExecCount(r, "") = 0
    /\ failedAt[r].at = "notfound" =>
         /\ failedAt[r].owner \notin DOMAIN dependencies
         /\ Top(r).wait = failedAt[r].idx
         /\ \A fr \in Frames(r) : ExecCount(r, fr.name) = 0
    /\ \A c \in Calls(r) : c.fn = "" \/ c.fn \in DOMAIN dependencies
    /\ scope[r] # 0 => DOMAIN resolved[scope[r]] \subseteq DOMAIN dependencies

\* auth was resolved, then orphan asked for ghost, which nobody registered
C13_Witness ==
  /\ ch.reqType = "ViaOrphanRequest" /\ pc[1] = "Failed"
  /\ failedAt[1] = [at |-> "notfound", owner |-> "ghost", idx |-> 0]
  /\ Len(stack[1]) = 2 /\ Top(1).name = "orphan"
  /\ "auth" \in DOMAIN resolved[scope[1]] /\ ExecCount(1, "auth") = 1

\* C14: when the extraction of a field fails (a path variable is missing, a
\* number, boolean or JSON value is malformed) the response the default error
\* handler writes has a client-error status, 400 to 499.
C14_ExtractionErrorIsClientError ==
  \A r \in Reqs :
    failedAt[r].at = "extract" =>
      /\ Len(resp[r]) = 1
      /\ resp[r][1].status \in 400..499

\* the Authorization header of request r
TokenOf(r) == Get(rq[r].header, "Authorization")

\* C15: a field declared on "dep.F1...Fn" receives the value found by going
\* through the named fields of the resolved result (auth.UserID gives the
\* user id, auth.username is found without regard to case, auth.Org.Name goes
\* through the pointer); a path with a missing segment (auth.Missing), through
\* a nil pointer or into a non-struct (auth.UserID.X) leaves the field at its
\* zero value, raises no error and does not stop the request.
C15_NestedSelection ==
  \A r \in Reqs :
    /\ \A c \in Calls(r) : c.fn = "whoami" =>
         /\ c.req.v[0] = Str(TokenOf(r))
         /\ c.req.v[1] = Str(<<>>)
    /\ ch.reqType = "NestedRequest" =>
         /\ \A c \in Calls(r) : c.fn = "" =>
              /\ c.req.v[0] = Str(TokenOf(r))
              /\ c.req.v[1] = Str(<<>>)
              /\ c.req.v[2] = Str(<<"j">>)
              /\ c.req.v[3] = Str(<<>>)
              /\ c.req.v[4] = IF TokenOf(r) = T1 THEN Str(<<"o">>) ELSE Str(<<>>)
              /\ c.req.v[5].v = (0 :> Str(TokenOf(r))) @@ (1 :> Str(<<>>))
         /\ \A fr \in Frames(r) : \A i \in {1, 3} :
              (fr.name = "" /\ Visited(fr, i)) => fr.reqValue.v[i] = Str(<<>>)
         /\ pc[r] # "Panicked"
         /\ failedAt[r].at \in {"none", "validate", "call"}
         /\ failedAt[r].at = "validate" => failedAt[r].owner = "auth"
         /\ (pc[r] = "Failed" /\ TokenOf(r) # <<>>) => failedAt[r].at = "call"

\* the handler was invoked with the user id, with Missing and Deep left empty
\* and with OrgName left empty behind the nil pointer
C15_Witness ==
  /\ ch.reqType = "NestedRequest" /\ pc[1] = "Serialized" /\ TokenOf(1) = T2
  /\ calls[1][Len(calls[1])].req.v[0] = Str(T2)
  /\ calls[1][Len(calls[1])].req.v[1] = Str(<<>>)
  /\ calls[1][Len(calls[1])].req.v[4] = Str(<<>>)
  /\ ExecCount(1, "whoami") = 1

\* the lines ls are the wire form of event ev: event, id, retry when set, the
\* data lines, the blank line
WireForm(ls, ev) ==
  LET nE == IF ev.Event # <<>> THEN 1 ELSE 0
      nI == IF ev.ID # <<>> THEN 1 ELSE 0
      nR == IF ev.Retry > 0 THEN 1 ELSE 0
      h == nE + nI + nR
      breaks == {i \in 1..Len(ev.Data.json) : ev.Data.json[i] = "\n"}
  IN /\ Len(ls) = h + Cardinality(breaks) + 2
     /\ nE = 1 => ls[1] = Line("event", ev.Event)
     /\ nI = 1 => ls[nE + 1] = Line("id", ev.ID)
     /\ nR = 1 => ls[nE + nI + 1] = Line("retry", ev.Retry)
     /\ \A i \in (h + 1)..(Len(ls) - 1) :
          /\ ls[i].k = "data"
          /\ \A j \in 1..Len(ls[i].v) : ls[i].v[j] # "\n"
     /\ ls[Len(ls)] = Line("end", <<>>)

\* C16: what a successful writeSSEEvent puts on the stream for an event is
\* its event line if it has a name, its id line if it has an id, its retry
\* line if the interval is set, one data line per segment of the payload and
\* the blank line, in this order and nothing else.
C16_EventWireForm ==
  [][(ssePc = "Write" /\ ssePc' = "Flush") =>
       WireForm(SubSeq(out', Len(out) + 1, Len(out')), events[next])]_vars

\* the registered dependencies the extractors of a plan name
DepNames(plan) ==
  {plan.extractors[i].depName :
     i \in {j \in DOMAIN plan.extractors : plan.extractors[j].kind = "dep"}}
    \cap DOMAIN dependencies

\* the dependencies a request of the route may resolve
RECURSIVE Reachable(_)
Reachable(names) ==
  LET more == names \cup UNION {DepNames(dependencies[n]) : n \in names}
  IN IF more = names THEN names ELSE Reachable(more)

\* some field slot of the handler or of a dependency it may resolve is
\* JSON-sourced
NeedsBody ==
  \/ \E i \in DOMAIN ch.extractors : ch.extractors[i].kind = "json"
  \/ \E n \in Reachable(DepNames(ch)) :
       \E i \in DOMAIN dependencies[n].extractors :
         dependencies[n].extractors[i].kind = "json"

\* C17: once Execute is past its first step the body of a request that has
\* one was read exactly once when some field slot is JSON-sourced and not at
\* all when none is; it is never read twice.
C17_BodyReadIffNeeded ==
  \A r \in Reqs :
    /\ bodyReads[r] <= 1
    /\ (pc[r] \notin {"None", "Idle"} /\ rq[r].body.kind # "nil") =>
         bodyReads[r] = IF NeedsBody THEN 1 ELSE 0

\* every part of the input converts to the element type
AllConvert(parts, t) == Elem(t) = "string" \/ \A i \in 1..Len(parts) : parts[i].isNum

\* C18: convertValue of a comma-separated text for a slice type gives one
\* element per part, in order, each part without the blanks around it and
\* converted to the element type ("a, b,c" gives a, b, c); when a part does
\* not convert, the result is an error and no slice.
C18_SliceCoercion ==
  (fnIn.fn = "convertValue" /\ fnOut.done) =>
    LET ps == fnIn.parts
        t == fnIn.targetType
        res == fnOut.res
    IN IF AllConvert(ps, t)
         THEN /\ res.err = NoErr
              /\ res.val.t = t
              /\ Len(res.val.v) = Len(ps)
              /\ \A i \in 1..Len(ps) :
                   res.val.v[i] = IF Elem(t) = "string" THEN ps[i].trim ELSE ps[i].num
         ELSE /\ res.err.kind = "error"
              /\ res.val = NilV

\* the body of a response that says nothing about the error
GenericBody(res) ==
  /\ res.code = "INTERNAL_ERROR" /\ res.message = "An internal error occurred"
  /\ res.details = <<>> /\ res.fields = <<>>

\* C19: the default error handler writes for an *Error its own status with
\* its code, message and details, for a *ValidationError status 400 with the
\* violation lists of its fields, and for any other error status 500 with the
\* generic INTERNAL_ERROR body, in which the text of the error does not appear.
C19_DefaultErrorMapping ==
  (fnIn.fn = "defaultErrorHandler" /\ fnOut.done) =>
    LET err == fnIn.err
        res == fnOut.res
    IN CASE err.kind = "Error" ->
              /\ res.status = err.Status /\ res.code = err.Code
              /\ res.message = err.Message /\ res.details = err.Details
              /\ res.fields = <<>>
         [] err.kind = "ValidationError" ->
              /\ res.status = 400 /\ res.fields = err.Fields
              /\ res.details = <<>>
         [] OTHER -> res.status = 500 /\ GenericBody(res)

\* a write of an event has failed
WriteFailed == writeFailAt # NoWriteFail

\* nothing was written or flushed, and no write was tried, since the first
\* failed write
NothingSinceFailure ==
  /\ attempts = writeFailAt.attempts
  /\ Len(out) = writeFailAt.outLen
  /\ flushedLen = writeFailAt.flushedLen

\* the error handler was not called
NoErrorHandlerCall == \A r \in Reqs : errCalls[r] = <<>>

\* yield returned false only for a cancellation it saw or a failed write, and
\* the stream has ended only for one of the three causes (or for a writer
\* that cannot flush)
StopsOnlyForCause ==
  /\ lastYield = "false" => (ctxDone \/ WriteFailed)
  /\ (ssePc = "Done" /\ flusherOK) =>
       (next > Len(events) \/ ctxDone \/ WriteFailed)

\* C20 as stated: after a failed write no further event is written and
\* nothing more is flushed, whatever the producer does.
C20_NoWriteAfterFailure == WriteFailed => NothingSinceFailure

\* C20: the stream ends only because the producer returned, a cancellation
\* was seen or a write failed.  A failed write makes yield return false
\* without a flush and without a call of the error handler; when the producer
\* returns on a false yield, no further event is written and nothing more is
\* flushed, while a producer that calls yield again has its next event
\* written and flushed like any other.  For a finite producer, and for one
\* that returns on a false yield after a failed write, streamEvents returns.
C20_StreamStops ==
  /\ [](StopsOnlyForCause /\ NoErrorHandlerCall)
  /\ []((WriteFailed /\ polite) => NothingSinceFailure)
  /\ []((WriteFailed /\ attempts = writeFailAt.attempts)
          => (lastYield = "false" /\ flushedLen = writeFailAt.flushedLen))
  /\ <>(ssePc = "Done")

\* a write failed while the producer had more events, the producer returned
\* and the stream has ended without a cancellation
C20_Witness ==
  /\ WriteFailed /\ polite /\ ~ctxDone /\ ssePc = "Done"
  /\ writeFailAt.next < Len(events)

\* request r takes the step
Moved(r) == pc'[r] # pc[r] \/ stack'[r] # stack[r] \/ calls'[r] # calls[r]

\* C21: serving requests changes no registration-time state: every step of
\* every request leaves the compiled plan of the route, the registry of
\* compiled dependencies and the route table as they are, and the request
\* value and the ResolvedDependencies cache of a request are written by the
\* steps of that request only.
C21_PlansAreReadOnly ==
  [][/\ dependencies' = dependencies /\ ch' = ch /\ routes' = routes
     /\ \A r \in Reqs :
          ~Moved(r) => /\ stack'[r] = stack[r]
                       /\ scope'[r] = scope[r]
                       /\ scope[r] # 0 => resolved'[scope[r]] = resolved[scope[r]]]_vars

\* all requests were served, each from its own cache, with the registry
\* and the plan they started from
C21_Witness ==
  /\ \A r \in Reqs : pc[r] = "Serialized" /\ DOMAIN resolved[scope[r]] = {"auth", "perm"}
  /\ dependencies = Registry /\ ch = compileHandler("DiamondRequest", "Response")

\* the dependencies that can be reached from themselves
OnCycle ==
  {n \in DOMAIN dependencies : n \in Reachable(DepNames(dependencies[n]))}

\* a Resolve of a dependency on a cycle was entered
CycleEntered(r) == \E i \in 1..Len(stack[r]) : stack[r][i].name \in OnCycle

\* no function of a dependency on a cycle ran, and none has a cache entry
NothingOnCycleDone(r) ==
  /\ \A c \in Calls(r) : c.fn \notin OnCycle
  /\ scope[r] # 0 => DOMAIN resolved[scope[r]] \cap OnCycle = {}

Ended(r) == pc[r] \in {"Failed", "Serialized", "Panicked", "Overflow"}

\* the business functions are functions: called with the same request value in
\* two executions they return the same
SameFunctions(r1, r2) ==
  \A c1 \in Calls(r1), c2 \in Calls(r2) :
    (c1.fn = c2.fn /\ c1.req = c2.req) => c1.out = c2.out

\* the names of the functions executed, in order
ExecOrder(r) == [i \in 1..Len(calls[r]) |-> calls[r][i].fn]

\* C23: binding is deterministic: two executions of the same plan on the same
\* request, with business functions that answer alike, execute the same
\* dependencies in the same order and end with the same outcome, the same
\* error being reported when more than one field slot would fail.
C23_BindingIsDeterministic ==
  (rq[1] = rq[2] /\ Ended(1) /\ Ended(2) /\ SameFunctions(1, 2)) =>
    /\ ExecOrder(1) = ExecOrder(2)
    /\ errCalls[1] = errCalls[2]
    /\ resp[1] = resp[2]
    /\ pc[1] = pc[2]

\* the values the executions of the function of dependency n by goroutine r
\* returned, which its Resolve calls returned to their callers
ReturnedBy(r, n) == {c.out.val : c \in {d \in Calls(r) : d.fn = n /\ d.out.err = NoErr}}

\* C24: when two Resolve calls for the same name run concurrently against
\* the same ResolvedDependencies, the function of the dependency is executed
\* at most once for that scope and both calls return the same value.
C24_AtMostOnceWhenParallel ==
  \A n \in DOMAIN dependencies :
    /\ ExecCount(1, n) + ExecCount(2, n) <= 1
    /\ Cardinality(ReturnedBy(1, n) \cup ReturnedBy(2, n)) <= 1

\* what the field of the slot with extractor e holds once the referenced
\* dependency returned result: the result, or the field of it the path of
\* the tag selects, converted to the type of the field; the field is left at
\* its zero value when the path selects nothing
Bound(e, result) ==
  LET sel == IF Len(e.fieldPath) > 1
               THEN extractNestedField(result, Tail(e.fieldPath))
               ELSE result
  IN IF sel = NilV \/ ~ConvertibleTo(sel.t, e.fieldType)
       THEN Zero(e.fieldType)
       ELSE [t |-> e.fieldType, v |-> sel.v]

\* C25: dependencies execute bottom-up: when the function of dependency B is
\* invoked, every dependency A that a field of B references was executed
\* successfully earlier in the same request, and that field of B's request
\* value holds A's result or the field of it that the tag selects.
C25_BottomUp ==
  \A r \in Reqs : \A i \in 1..Len(calls[r]) :
    LET c == calls[r][i]
    IN c.fn \in DOMAIN dependencies =>
         \A idx \in DOMAIN dependencies[c.fn].extractors :
           LET e == dependencies[c.fn].extractors[idx]
           IN e.kind = "dep" =>
                \E j \in 1..(i - 1) :
                  /\ calls[r][j].fn = e.depName
                  /\ calls[r][j].out.err = NoErr
                  /\ c.req.v[idx] = Bound(e, calls[r][j].out.val)

\* audit ran after perm, which ran after auth, each with the result of the
\* one before in its request value
C25_Witness ==
  /\ ch.reqType = "ChainRequest"
  /\ ExecOrder(1) = <<"auth", "perm", "audit">>
  /\ calls[1][3].req.v[0] = calls[1][2].out.val
  /\ calls[1][2].req.v[0] = calls[1][1].out.val

\* the cache of request r
CacheOf(r) == IF scope[r] = 0 THEN <<>> ELSE resolved[scope[r]]

\* every entry of the cache is the value a successful execution of that
\* dependency returned in this request, on a request value that is valid
EntriesAreResults(r) ==
  \A n \in DOMAIN CacheOf(r) :
    \E c \in Calls(r) :
      /\ c.fn = n /\ c.out.err = NoErr /\ c.out.val = CacheOf(r)[n]
      /\ validateStruct(c.req, dependencies[n].validators) = NoErr

\* a resolution that failed, in validation or in the function, stored nothing
FailuresStoreNothing(r) ==
  /\ \A c \in Calls(r) :
       (c.fn # "" /\ c.out.err # NoErr) => c.fn \notin DOMAIN CacheOf(r)
  /\ (pc[r] = "Failed" /\ failedAt[r].owner # "") =>
       failedAt[r].owner \notin DOMAIN CacheOf(r)

\* every function that ran after the entry was stored and has a field that
\* references the name received the cached value in it
ReferencesGetEntry(r) ==
  \A c \in Calls(r) :
    \A idx \in DOMAIN PlanOfFn(c.fn).extractors :
      LET e == PlanOfFn(c.fn).extractors[idx]
      IN e.kind = "dep" =>
           /\ e.depName \in DOMAIN CacheOf(r)
           /\ c.req.v[idx] = Bound(e, CacheOf(r)[e.depName])

\* C26: every entry of the ResolvedDependencies cache of a request is the
\* value returned by a successful execution of that dependency's function in
\* the same request, stored after validation passed and the function returned
\* no error; a failed resolution stores nothing; an entry is never overwritten
\* or removed; every reference to the name receives that value.
C26_CacheHoldsResults ==
  /\ [](\A r \in Reqs :
          EntriesAreResults(r) /\ FailuresStoreNothing(r) /\ ReferencesGetEntry(r))
  /\ [][\A r \in Reqs : \A n \in DOMAIN CacheOf(r) :
          n \in DOMAIN CacheOf(r)' /\ CacheOf(r)'[n] = CacheOf(r)[n]]_vars

\* the diamond was served: auth was stored once and both the handler and perm
\* received it
C26_Witness ==
  /\ ch.reqType = "DiamondRequest" /\ pc[1] = "Serialized"
  /\ DOMAIN CacheOf(1) = {"auth", "perm"}
  /\ \E c \in Calls(1) : c.fn = "" /\ c.req.v[0] = CacheOf(1)["auth"]
  /\ \E c \in Calls(1) : c.fn = "perm" /\ c.req.v[0] = CacheOf(1)["auth"]

\* yield calls writeSSEEvent for the event the producer yielded
Writes == ssePc = "Write" /\ attempts' = attempts + 1

\* the lines a step added to the output
Added == SubSeq(out', Len(out) + 1, Len(out'))

\* C27: the payload of an event is serialized before anything of the event
\* is written: an event whose payload cannot be serialized adds no line to
\* the output, and the event, id and retry lines of an event are in the
\* output only with its data lines and its blank line after them, unless a
\* write failed; the flush comes after the blank line.
C27_SerializeBeforeWrite ==
  [][Writes =>
       LET ev == events[next]
           w == writeSSEEvent(ev)
       IN IF ~ev.Data.ok
            THEN Added = <<>>
            ELSE /\ Added = SubSeq(w.lines, 1, Len(Added))
                 /\ (ssePc' = "Flush") = (Len(Added) = Len(w.lines))]_vars

\* number of 200 responses written for request r
Written200(r) == Cardinality({i \in 1..Len(resp[r]) : resp[r][i].status = 200})

\* C28: with an acyclic registry every Execute ends with exactly one terminal
\* outcome: the error handler called once or one 200 response written, never
\* both, never neither, and until then it always has a next step; also when a
\* dependency-sourced field receives a value that is not convertible to the
\* type of the field.
C28_ExactlyOneOutcome ==
  \A r \in Reqs :
    /\ Len(errCalls[r]) + Written200(r) <= 1
    /\ Ended(r) => Len(errCalls[r]) + Written200(r) = 1
    /\ (pc[r] # "None" /\ ~Ended(r)) => ENABLED RequestStep(r)

\* a registration call returns an error
ReturnsError == regOut' # regOut /\ regOut'.result = "error"

\* C29: a registration call that returns an error leaves the registered
\* state as it was: the registry of dependencies (so the name resolves as
\* before the call, or not at all), the route table with its metadata, and
\* the security schemes and paths of the OpenAPI document.
C29_FailedRegistrationChangesNothing ==
  [][ReturnsError =>
       /\ dependencies' = dependencies
       /\ routes' = routes
       /\ openapi' = openapi]_vars

\* the bytes of the inbound body of request r (none for a request without
\* a body)
ActualBody(r) ==
  IF rq[r].body.kind = "nil" THEN [kind |-> "empty"] ELSE rq[r].body

\* the JSON-sourced field slots of the plan of function fn
JSONSlots(fn) ==
  {i \in DOMAIN PlanOfFn(fn).extractors : PlanOfFn(fn).extractors[i].kind = "json"}

\* C30: every function called for a request, the handler or a dependency,
\* finds in each JSON-sourced field of its request value what the bytes of
\* the inbound body give for the key of that field, also when the request
\* type of the handler has no JSON-sourced field.
C30_JSONSlotsReadTheBody ==
  \A r \in Reqs : \A k \in 1..Len(calls[r]) :
    \A i \in JSONSlots(calls[r][k].fn) :
      LET res == JSONExtract(PlanOfFn(calls[r][k].fn).extractors[i], ActualBody(r))
      IN res.err = NoErr /\ calls[r][k].req.v[i] = res.val
====
